---------------------------- MODULE Spec2Model ----------------------------
(***************************************************************************)
(* Model of the configuration system of joeri-hu/innovation (namespace     *)
(* cfg): the default setting schema, the XML (tag-tree) parser, the        *)
(* message (bit-frame) parser, the setting-handler, the verification rules *)
(* and the process_config orchestration, plus the pure helpers             *)
(* extract_bits and error::code.                                           *)
(*                                                                         *)
(* Conventions                                                             *)
(*  - a value buffer / text is a sequence of bytes (0..255); ASCII text is *)
(*    written with its character codes ('0' = 48, '1' = 49, ...);          *)
(*  - a 64-bit unsigned integer is the set of its set bit indices          *)
(*    (bit 0 = least significant), a byte likewise within 0..7;            *)
(*  - a config message is the set of its set bit positions, numbered as    *)
(*    the schema numbers them (bit 0 = most significant bit of byte 0);    *)
(*  - the SAXML tokenizer is an external library: a document is the        *)
(*    sequence of SAX events it raises for it.                             *)
(***************************************************************************)
EXTENDS Integers, Sequences, FiniteSets, TLC

VARIABLES
    pc,                \* position inside cfg::process_config
    parser_kind,       \* "xml" (config_handler<xml_parser>) | "message" | "none"
    todo,              \* SAX events of the document not yet raised
    document,          \* SAX events raised so far in this call (observer)
    fuel,              \* number of freely chosen SAX events still allowed
    open_tags,         \* the tags currently open, outermost first (observer)
    stored,            \* log of (setting index, open tags) of every set_value by handle_content (observer)
    tag_levels,        \* xml_parser::tag_levels
    target_setting,    \* xml_parser::target_setting (0-based index)
    tag_depth,         \* xml_parser::tag_depth
    handle_tag_called, \* xml_parser::handle_tag_called
    position,          \* xml_parser::position
    parse_errors,      \* parser's err_handler (xml: capacity 38, message: capacity 2)
    message,           \* the message_data handed to the message parser
    values,            \* setting::value_view of every setting (the buffered bytes)
    cache,             \* setting::cache of every setting
    unset_setting_errors,  \* setting_handler::unset_setting_errors
    invalid_value_errors,  \* setting_handler::invalid_value_errors
    main_cfg,          \* config_handler::main_cfg_
    verification,      \* error_handler returned by verify_main_config
    rules_evaluated,   \* number of verification rules evaluated (observer)
    bits_in,           \* extract_bits study: [pos, size, value] written into the buffer
    bits_out,          \* extract_bits study: the extracted value
    code_in,           \* error::code study: [category, kind, data]
    code_out,          \* error::code study: the packed 32-bit value
    eh,                \* error_handler study: capacity, codes to add, buffer
    record_in,         \* verification study: the record handed to verify_main_config
    verification_out,  \* verification study: the errors verify_main_config returned
    validate_in,       \* validate<T, MinMax...> study: [T, x, min, max]
    validate_out,      \* validate<T, MinMax...> study: the validate_result
    first_parse,       \* parse-twice study: document and result of the first parse
    single_setting     \* setting study: one setting under set_value and validate calls

vars == <<pc, parser_kind, todo, document, fuel, open_tags, stored, tag_levels, target_setting,
          tag_depth, handle_tag_called, position, parse_errors, message, values,
          cache, unset_setting_errors, invalid_value_errors, main_cfg,
          verification, rules_evaluated, bits_in, bits_out, code_in, code_out,
          eh, record_in, verification_out, validate_in, validate_out, first_parse,
          single_setting>>

pipeline_vars == <<pc, parser_kind, todo, document, fuel, open_tags, stored, tag_levels,
          target_setting, tag_depth, handle_tag_called, position, parse_errors,
          message, values, cache, unset_setting_errors, invalid_value_errors,
          main_cfg, verification, rules_evaluated>>

pure_vars == <<bits_in, bits_out, code_in, code_out, eh, record_in, verification_out,
               validate_in, validate_out, first_parse, single_setting>>

---------------------------------------------------------------------------
(* Small helpers *)

Min(a, b) == IF a < b THEN a ELSE b

\* 2^n for n in 0..30
Pow2(n) ==
    << 1, 2, 4, 8, 16, 32, 64, 128, 256, 512, 1024, 2048, 4096, 8192, 16384, 32768,
       65536, 131072, 262144, 524288, 1048576, 2097152, 4194304, 8388608, 16777216,
       33554432, 67108864, 134217728, 268435456, 536870912, 1073741824 >>[n + 1]

\* value of a bit set restricted to bits below 31 (fits a TLC integer)
RECURSIVE BitsToInt(_)
BitsToInt(bs) ==
    IF bs = {} THEN 0
    ELSE LET b == CHOOSE x \in bs : TRUE
         IN  Pow2(b) + BitsToInt(bs \ {b})

\* bit set of a natural number below 2^31
RECURSIVE IntToBits(_)
IntToBits(n) ==
    IF n = 0 THEN {}
    ELSE (IF n % 2 = 1 THEN {0} ELSE {}) \cup {b + 1 : b \in IntToBits(n \div 2)}

---------------------------------------------------------------------------
(* Program constants *)

\* setting::max_value_size
max_value_size == 32

\* bitspan::byte_boundary
byte_boundary == 64

\* main_configuration::max_name_size (LORAWAN_DEVICE_EUI is 8 bytes: max(32, 17))
max_name_size == 32

\* xml_parser::max_tag_depth: the greatest tag depth of the default settings
max_tag_depth == 5

\* std::tuple_size of get_default_settings()
setting_count == 38

\* capacity of message_parser::err_handler
message_error_capacity == 2

\* std::tuple_size of get_default_verification_rules()
rule_count == 5

\* error::segment_size
segment_size_category == 3
segment_size_type == 5
segment_size_data == 24

---------------------------------------------------------------------------
(* error-types.h *)

category == [unspecified |-> 0, parsing |-> 1, validation |-> 2, verification |-> 3]

parsing_error == [unspecified |-> 0, missing_opening_tag |-> 1,
    missing_closing_tag |-> 2, exceeds_max_value_length |-> 3, empty_config |-> 4,
    no_tags_found |-> 5, invalid_message_pointer |-> 6,
    insufficient_message_size |-> 7]

validation_error == [unspecified |-> 0, setting_unset |-> 1,
    contains_invalid_character |-> 2, missing_value |-> 3, negative_value |-> 4,
    exceeds_max_length |-> 5, out_of_type_range |-> 6, below_type_range |-> 7,
    above_type_range |-> 8, below_min_threshold |-> 9, above_max_threshold |-> 10,
    invalid_option |-> 11]

verification_error == [unspecified |-> 0, no_trigger_enabled |-> 1,
    no_data_destination_enabled |-> 2]

verification_identifier == [unspecified |-> 0, trigger_requirement |-> 1,
    time_trigger |-> 2, light_trigger |-> 3, acceleration_trigger |-> 4,
    orientation_trigger |-> 5]

---------------------------------------------------------------------------
(* Unsigned machine words as sets of set bit indices *)

\* make_bitmask(n): the n low bits
make_bitmask(n) == 0 .. (n - 1)

\* conversion of an int to std::int_least8_t (two's complement, 8 bits)
int_least8(n) == ((n + 128) % 256) - 128

\* x << n in an unsigned word of w bits
Shl(x, n, w) == {b + n : b \in x} \cap (0 .. (w - 1))

\* x >> n
Shr(x, n) == {b - n : b \in {c \in x : c >= n}}

---------------------------------------------------------------------------
(* error-code.h: error::code *)

\* code(category, ErrorType) with the category shifted by its own size
\* instead of the size of the kind segment
code_of_type_misshift(category_id, error_id) ==
    LET b0 == IntToBits(category_id) \cap make_bitmask(segment_size_category)
        b1 == Shl(b0, segment_size_category, 32)
        b2 == b1 \cup (IntToBits(error_id) \cap make_bitmask(segment_size_type))
    IN  Shl(b2, segment_size_data, 32)

\* code(category, ErrorType): category and kind shifted into the high bits
code_of_type(category_id, error_id) ==
    LET b0 == IntToBits(category_id) \cap make_bitmask(segment_size_category)
        b1 == Shl(b0, segment_size_type, 32)
        b2 == b1 \cup (IntToBits(error_id) \cap make_bitmask(segment_size_type))
    IN  Shl(b2, segment_size_data, 32)

\* code(ErrorType, error_data): bits |= error_data & segment_mask::data.
\* error_data is given as a bit set
code(category_id, error_id, error_data) ==
    code_of_type(category_id, error_id)
        \cup (error_data \cap make_bitmask(segment_size_data))

\* static_cast<std::uint32_t>(error_data): the 32 bits of an integer in two's
\* complement, as a bit set
to_uint32(n) == IF n >= 0 THEN IntToBits(n) ELSE (0..31) \ IntToBits(0 - n - 1)

\* union data_format: the mask and the offset of each part of the data segment
data_format ==
    [data  |-> [mask |-> make_bitmask(segment_size_data), offset |-> 0],
     high  |-> [mask |-> make_bitmask(12), offset |-> 12],
     low   |-> [mask |-> make_bitmask(12), offset |-> 0],
     byte3 |-> [mask |-> make_bitmask(8), offset |-> 16],
     byte2 |-> [mask |-> make_bitmask(8), offset |-> 8],
     byte1 |-> [mask |-> make_bitmask(8), offset |-> 0]]

\* data_segment<Mask, Offset>::operator= that shifts error_data into place
\* without masking it
data_segment_assign_unmasked(bits, mask, offset, error_data) ==
    (bits \ Shl(mask, offset, 32)) \cup Shl(error_data, offset, 32)

\* data_segment<Mask, Offset>::operator=
data_segment_assign(bits, mask, offset, error_data) ==
    (bits \ Shl(mask, offset, 32)) \cup Shl(error_data \cap mask, offset, 32)

\* data_segment<Mask, Offset>::operator std::uint32_t
data_segment_read(bits, mask, offset) == Shr(bits, offset) \cap mask

\* the three segments of a packed code, as numbers
code_category(bits) ==
    BitsToInt(Shr(bits, segment_size_type + segment_size_data)
              \cap make_bitmask(segment_size_category))
code_type(bits) ==
    BitsToInt(Shr(bits, segment_size_data) \cap make_bitmask(segment_size_type))
code_data(bits) ==
    BitsToInt(data_segment_read(bits, make_bitmask(segment_size_data), 0))

---------------------------------------------------------------------------
(* bitwise.h: extract_bits, convert_bits *)

\* source[k] of a byte array given by the set of its set bit positions
\* (position 0 = most significant bit of byte 0)
SourceByte(source, k) == {7 - (q - 8 * k) : q \in {x \in source : x \div 8 = k}}

\* the for loop of extract_bits, from iteration idx on
RECURSIVE extract_loop(_, _, _, _, _, _, _, _)
extract_loop(source, idx, count, start, pos, size, offset, result) ==
    IF idx >= count
    THEN [pos |-> pos, size |-> size, offset |-> offset, result |-> result]
    ELSE LET r1   == result \cup (SourceByte(source, start + idx)
                                  \cap Shr(make_bitmask(8), offset))
             diff == 8 - offset
             pos1 == pos + diff
             siz1 == size - diff
             r2   == Shl(r1, Min(siz1, 8), 64)
         IN  extract_loop(source, idx + 1, count, start, pos1, siz1, pos1 % 8, r2)

\* extract_bits without the shift of the last byte down to its span
extract_bits_unshifted(source, bpos, bsize) ==
    LET offset == bpos % 8
        count  == (bsize + offset - 1) \div 8
        start  == bpos \div 8
        l      == extract_loop(source, 0, count, start, bpos, bsize, offset, {})
        last   == SourceByte(source, start + count) \cap Shr(make_bitmask(8), l.offset)
    IN  l.result \cup last

\* extract_bits(source, bitspan{pos, size}): a 64-bit word
extract_bits(source, bpos, bsize) ==
    LET offset == bpos % 8
        count  == (bsize + offset - 1) \div 8
        start  == bpos \div 8
        l      == extract_loop(source, 0, count, start, bpos, bsize, offset, {})
        span   == 8 - (l.offset + l.size)
        last   == SourceByte(source, start + count) \cap Shr(make_bitmask(8), l.offset)
    IN  l.result \cup Shr(last, span)

\* the indices at which extract_bits would subscript source if its count
\* were (size + offset) / width
extract_reads_rounded(bpos, bsize) ==
    LET offset == bpos % 8
        count  == (bsize + offset) \div 8
        start  == bpos \div 8
    IN  {start + idx : idx \in 0..(count - 1)} \cup {start + count}

\* the indices at which extract_bits subscripts source: start + idx in each
\* of the count iterations of the loop, then start + count
extract_reads(bpos, bsize) ==
    LET offset == bpos % 8
        count  == (bsize + offset - 1) \div 8
        start  == bpos \div 8
    IN  {start + idx : idx \in 0..(count - 1)} \cup {start + count}

\* the 8 bytes std::memcpy takes from a 64-bit word (little-endian target),
\* each byte as a number
word_bytes(word) ==
    [k \in 1..8 |-> BitsToInt({b - 8 * (k - 1) : b \in {c \in word : c \div 8 = k - 1}})]

---------------------------------------------------------------------------
(* main-config.h: main_configuration *)

\* std::optional<T>: <<>> is std::nullopt, <<x>> holds x
nullopt == <<>>

triggers == {"time", "light", "acceleration", "orientation"}

\* the device name the constructor writes: the hexadecimal text of the 8-byte
\* LORAWAN_DEVICE_EUI of the build (here the EUI of all zeros, "000...0")
default_device_name == [i \in 1..16 |-> 48]

\* the fields every trigger has, as the constructor sets them
default_trigger ==
    [enable |-> TRUE,
     measure |-> [thp |-> TRUE, accel_gyro |-> TRUE, magnet |-> TRUE, light |-> TRUE],
     lorawan_priority |-> 4,
     write_to |-> [lora |-> TRUE, sd |-> TRUE]]

\* main_configuration(): the default record.  The measure_* fields of the
\* sensor drivers are not set by the constructor; they keep the value the
\* framework's own type gives them (false)
default_main_config ==
    [status |-> "operational",
     device_name |-> default_device_name,
     usb_detection |-> "INTERVAL",
     usb_detection_interval_ms |-> 10000,
     bme280 |-> [low_power |-> TRUE, measure_temperature |-> FALSE,
                 measure_humidity |-> FALSE, measure_pressure |-> FALSE],
     bmx160 |-> [low_power |-> TRUE, measure_accelerometer |-> FALSE,
                 measure_gyroscope |-> FALSE, measure_magnetometer |-> FALSE],
     veml6030 |-> [low_power |-> TRUE, measure_light |-> FALSE],
     trigger |->
        [time |-> default_trigger @@ [interval_ms |-> 20000],
         light |-> default_trigger
                    @@ [low_threshold |-> 1000, high_threshold |-> 20000],
         acceleration |-> default_trigger,
         orientation |-> default_trigger]]

\* main_configuration::reset(): *this = {}
reset(config) == default_main_config

---------------------------------------------------------------------------
(* default-settings.h: get_default_settings *)

V_name  == [fn |-> "validate_name", T |-> "string", min |-> nullopt, max |-> nullopt]
V_usb   == [fn |-> "validate_usb",  T |-> "int32",  min |-> nullopt, max |-> nullopt]
V_bool  == [fn |-> "validate", T |-> "bool",   min |-> nullopt, max |-> nullopt]
V_ms    == [fn |-> "validate", T |-> "uint32", min |-> <<1000>>, max |-> nullopt]
V_u16   == [fn |-> "validate", T |-> "uint16", min |-> nullopt, max |-> nullopt]
V_prio  == [fn |-> "validate", T |-> "int8",   min |-> <<0>>,   max |-> <<3>>]

\* one setting of a trigger: path aether/trigger/<trig>/<leaf...>, required,
\* bitspan (pos, size), validator v, action writing <field> of the trigger
TriggerSetting(trig, leaf, bpos, bsize, v, kind, field) ==
    [tags |-> <<"aether", "trigger", trig>> \o leaf, type |-> "required",
     pos |-> bpos, size |-> bsize, validator |-> v,
     action |-> [kind |-> kind, trig |-> trig, field |-> field]]

\* activate-sensors settings whose leaf hangs directly under the trigger
SensorSettings_flat(trig, sbit) ==
    << TriggerSetting(trig, <<"thp">>, sbit, 1, V_bool, "measure", "thp"),
       TriggerSetting(trig, <<"accel-gyro">>, sbit + 1, 1, V_bool,
                      "measure", "accel_gyro"),
       TriggerSetting(trig, <<"magnet">>, sbit + 2, 1, V_bool, "measure", "magnet"),
       TriggerSetting(trig, <<"light">>, sbit + 3, 1, V_bool, "measure", "light") >>

\* the four activate-sensors settings of a trigger, bits sbit .. sbit + 3
SensorSettings(trig, sbit) ==
    << TriggerSetting(trig, <<"activate-sensors", "thp">>, sbit, 1, V_bool,
                      "measure", "thp"),
       TriggerSetting(trig, <<"activate-sensors", "accel-gyro">>, sbit + 1, 1, V_bool,
                      "measure", "accel_gyro"),
       TriggerSetting(trig, <<"activate-sensors", "magnet">>, sbit + 2, 1, V_bool,
                      "measure", "magnet"),
       TriggerSetting(trig, <<"activate-sensors", "light">>, sbit + 3, 1, V_bool,
                      "measure", "light") >>

\* write-to settings in which lora takes the second bit of the priority
WriteToSettings_overlap(trig, wbit) ==
    << TriggerSetting(trig, <<"write-to", "lorawan-priority">>, wbit, 2, V_prio,
                      "field", "lorawan_priority"),
       TriggerSetting(trig, <<"write-to", "lora">>, wbit + 1, 1, V_bool,
                      "write_to", "lora"),
       TriggerSetting(trig, <<"write-to", "sd">>, wbit + 3, 1, V_bool,
                      "write_to", "sd") >>

\* the three write-to settings of a trigger, bits wbit .. wbit + 3
WriteToSettings(trig, wbit) ==
    << TriggerSetting(trig, <<"write-to", "lorawan-priority">>, wbit, 2, V_prio,
                      "field", "lorawan_priority"),
       TriggerSetting(trig, <<"write-to", "lora">>, wbit + 2, 1, V_bool,
                      "write_to", "lora"),
       TriggerSetting(trig, <<"write-to", "sd">>, wbit + 3, 1, V_bool,
                      "write_to", "sd") >>

\* the settings array, in the order of the setting_identifier enumeration
\* (the setting at index i has identifier i)
settings_ ==
    << [tags |-> <<"aether", "properties", "name">>, type |-> "optional",
        pos |-> 0, size |-> 0, validator |-> V_name,
        action |-> [kind |-> "device_name", trig |-> "", field |-> ""]],
       [tags |-> <<"aether", "usb", "detection">>, type |-> "required",
        pos |-> 24, size |-> 2, validator |-> V_usb,
        action |-> [kind |-> "usb_detection", trig |-> "", field |-> ""]],
       [tags |-> <<"aether", "usb", "detection-interval-ms">>, type |-> "required",
        pos |-> 32, size |-> 32, validator |-> V_ms,
        action |-> [kind |-> "usb_interval_ms", trig |-> "", field |-> ""]],
       TriggerSetting("time", <<"enabled">>, 26, 1, V_bool, "field", "enable"),
       TriggerSetting("time", <<"interval-ms">>, 64, 32, V_ms, "field", "interval_ms") >>
    \o SensorSettings("time", 8) \o WriteToSettings("time", 128)
    \o << TriggerSetting("light", <<"enabled">>, 27, 1, V_bool, "field", "enable"),
          TriggerSetting("light", <<"low-threshold">>, 112, 16, V_u16,
                         "field", "low_threshold"),
          TriggerSetting("light", <<"high-threshold">>, 96, 16, V_u16,
                         "field", "high_threshold") >>
    \o SensorSettings("light", 12) \o WriteToSettings("light", 132)
    \o << TriggerSetting("acceleration", <<"enabled">>, 28, 1, V_bool,
                         "field", "enable") >>
    \o SensorSettings("acceleration", 16) \o WriteToSettings("acceleration", 136)
    \o << TriggerSetting("orientation", <<"enabled">>, 29, 1, V_bool,
                         "field", "enable") >>
    \o SensorSettings("orientation", 20) \o WriteToSettings("orientation", 140)

\* the identifier each setting of get_default_settings is constructed with,
\* in the order of the array
setting_ids ==
    << "device_name", "usb_detection", "usb_interval_ms",
       "time_trigger_enabled", "time_trigger_interval", "time_trigger_thp",
       "time_trigger_acc_gyro", "time_trigger_magnetometer",
       "time_trigger_light_intensity", "time_trigger_lora_priority",
       "time_trigger_write_to_lora", "time_trigger_write_to_sd",
       "light_trigger_enabled", "light_trigger_low_threshold",
       "light_trigger_high_threshold", "light_trigger_thp",
       "light_trigger_acc_gyro", "light_trigger_magnetometer",
       "light_trigger_light_intensity", "light_trigger_lora_priority",
       "light_trigger_write_to_lora", "light_trigger_write_to_sd",
       "acceleration_trigger_enabled", "acceleration_trigger_thp",
       "acceleration_trigger_acc_gyro", "acceleration_trigger_magnetometer",
       "acceleration_trigger_light_intensity",
       "acceleration_trigger_lora_priority",
       "acceleration_trigger_write_to_lora",
       "acceleration_trigger_write_to_sd", "orientation_trigger_enabled",
       "orientation_trigger_thp", "orientation_trigger_acc_gyro",
       "orientation_trigger_magnetometer",
       "orientation_trigger_light_intensity",
       "orientation_trigger_lora_priority",
       "orientation_trigger_write_to_lora",
       "orientation_trigger_write_to_sd" >>

\* default-setting-ids.h: the identifiers the scenarios name
setting_identifier ==
    [device_name |-> 1, usb_detection |-> 2, usb_interval_ms |-> 3,
     time_trigger_enabled |-> 4, time_trigger_interval |-> 5,
     time_trigger_lora_priority |-> 10, time_trigger_write_to_lora |-> 11, time_trigger_write_to_sd |-> 12,
     light_trigger_enabled |-> 13]

---------------------------------------------------------------------------
(* string-conversions.h, string-scanning.h, validators.h, setting-validators.h *)

\* the integral types of the validators: size in bytes, signedness and the
\* decimal digits of the greatest magnitudes std::from_chars accepts
type_info(T) ==
    CASE T = "uint8"  -> [bytes |-> 1, signed |-> FALSE, max |-> <<2,5,5>>, min |-> <<0>>]
      [] T = "bool"   -> [bytes |-> 1, signed |-> FALSE, max |-> <<1>>, min |-> <<0>>]
      [] T = "int8"   -> [bytes |-> 1, signed |-> TRUE,  max |-> <<1,2,7>>, min |-> <<1,2,8>>]
      [] T = "uint16" -> [bytes |-> 2, signed |-> FALSE, max |-> <<6,5,5,3,5>>, min |-> <<0>>]
      [] T = "uint32" -> [bytes |-> 4, signed |-> FALSE,
                          max |-> <<4,2,9,4,9,6,7,2,9,5>>, min |-> <<0>>]
      [] OTHER        -> [bytes |-> 4, signed |-> TRUE,
                          max |-> <<2,1,4,7,4,8,3,6,4,7>>, min |-> <<2,1,4,7,4,8,3,6,4,8>>]

is_digit(c) == c >= 48 /\ c <= 57

\* length of the longest run of decimal digits of text starting at index i
RECURSIVE digit_run(_, _)
digit_run(text, i) ==
    IF i <= Len(text) /\ is_digit(text[i]) THEN 1 + digit_run(text, i + 1) ELSE 0

\* a digit sequence without its leading zeros
RECURSIVE strip_zeros(_)
strip_zeros(ds) ==
    IF Len(ds) > 1 /\ ds[1] = 0 THEN strip_zeros(Tail(ds)) ELSE ds

\* the number a digit sequence denotes
RECURSIVE digits_value(_)
digits_value(ds) ==
    IF ds = <<>> THEN 0 ELSE 10 * digits_value(SubSeq(ds, 1, Len(ds) - 1)) + ds[Len(ds)]

\* magnitude ds (no leading zeros) is greater than magnitude lim
digits_exceed(ds, lim) ==
    \/ Len(ds) > Len(lim)
    \/ /\ Len(ds) = Len(lim)
       /\ \E i \in 1..Len(ds) :
            /\ ds[i] > lim[i]
            /\ \A j \in 1..(i - 1) : ds[j] = lim[j]

\* cfg::from_chars -> std::from_chars, base 10: an optional '-' for signed
\* types, then the longest run of digits; characters after the run are left
\* unread.  ec is "ok", "invalid_argument" or "result_out_of_range"
from_chars(input, T) ==
    LET ti    == type_info(T)
        neg   == ti.signed /\ Len(input) >= 1 /\ input[1] = 45
        first == IF neg THEN 2 ELSE 1
        n     == digit_run(input, first)
        ds    == strip_zeros([i \in 1..n |-> input[first + i - 1] - 48])
    IN  IF n = 0 THEN [ec |-> "invalid_argument", value |-> 0]
        ELSE IF digits_exceed(ds, IF neg THEN ti.min ELSE ti.max)
        THEN [ec |-> "result_out_of_range", value |-> 0]
        ELSE [ec |-> "ok", value |-> IF neg THEN 0 - digits_value(ds) ELSE digits_value(ds)]

\* validate_value_range<T>(value, min, max); an absent min or max is the
\* limit of T, which a value of type T never passes
validate_value_range(T, value, min, max) ==
    IF T = "bool" THEN [data |-> <<value # 0>>, error |-> nullopt]
    ELSE IF min # nullopt /\ value < min[1]
    THEN [data |-> <<value>>, error |-> <<validation_error.below_min_threshold>>]
    ELSE IF max # nullopt /\ value > max[1]
    THEN [data |-> <<value>>, error |-> <<validation_error.above_max_threshold>>]
    ELSE [data |-> <<value>>, error |-> nullopt]

\* validate_value that returns the converted number without comparing it
\* with the thresholds
validate_value_unranged(T, value, min, max) ==
    IF value = <<>>
    THEN [data |-> nullopt, error |-> <<validation_error.missing_value>>]
    ELSE LET r == from_chars(value, IF T = "bool" THEN "uint8" ELSE T)
         IN  IF r.ec = "invalid_argument"
             THEN [data |-> nullopt,
                   error |-> <<validation_error.contains_invalid_character>>]
             ELSE IF r.ec = "result_out_of_range"
             THEN [data |-> nullopt, error |-> <<validation_error.out_of_type_range>>]
             ELSE [data |-> <<IF T = "bool" THEN r.value # 0 ELSE r.value>>,
                   error |-> nullopt]

\* validate_value<T>(value, min, max): the text of a config file
validate_value(T, value, min, max) ==
    IF value = <<>>
    THEN [data |-> nullopt, error |-> <<validation_error.missing_value>>]
    ELSE LET r == from_chars(value, IF T = "bool" THEN "uint8" ELSE T)
         IN  IF r.ec = "invalid_argument"
             THEN [data |-> nullopt,
                   error |-> <<validation_error.contains_invalid_character>>]
             ELSE IF r.ec = "result_out_of_range"
             THEN [data |-> nullopt, error |-> <<validation_error.out_of_type_range>>]
             ELSE IF T = "bool" /\ r.value > 1
             THEN [data |-> nullopt, error |-> <<validation_error.out_of_type_range>>]
             ELSE validate_value_range(T, r.value, min, max)

\* the number little-endian bytes denote
RECURSIVE bytes_value(_)
bytes_value(bs) ==
    IF bs = <<>> THEN 0 ELSE bs[1] + 256 * bytes_value(Tail(bs))

\* convert_bits<T>(value): T{} when the view is larger than T
convert_bits(T, value) ==
    LET ti == type_info(T)
    IN  IF Len(value) > ti.bytes THEN 0
        ELSE LET u == bytes_value(value)
             IN  IF ti.signed /\ Len(value) = ti.bytes /\ value[Len(value)] >= 128
                 THEN u - Pow2(8 * ti.bytes)
                 ELSE u

\* contains_special_character(source, "()-_")
contains_special_character(source) ==
    \E i \in 1..Len(source) :
        LET c == source[i]
        IN  ~ (\/ is_digit(c)
               \/ (c >= 65 /\ c <= 90)
               \/ (c >= 97 /\ c <= 122)
               \/ c \in {40, 41, 45, 95})

\* validate_name
validate_name(name) ==
    IF name = <<>> THEN [data |-> nullopt, error |-> <<validation_error.missing_value>>]
    ELSE IF contains_special_character(name)
    THEN [data |-> nullopt, error |-> <<validation_error.contains_invalid_character>>]
    ELSE [data |-> <<name>>, error |-> nullopt]

\* validate_usb<USB_DETECTION>: "on", "interval", "off"
validate_usb(option) ==
    IF option = <<>> THEN [data |-> nullopt, error |-> <<validation_error.missing_value>>]
    ELSE IF option = <<111, 110>> THEN [data |-> <<"ON">>, error |-> nullopt]
    ELSE IF option = <<105, 110, 116, 101, 114, 118, 97, 108>>
    THEN [data |-> <<"INTERVAL">>, error |-> nullopt]
    ELSE IF option = <<111, 102, 102>> THEN [data |-> <<"OFF">>, error |-> nullopt]
    ELSE [data |-> nullopt, error |-> <<validation_error.invalid_option>>]

\* the validator of a setting: dispatch_validator<Validator> ignores the mode,
\* validate<T, MinMax...> selects by it (invoke_validator)
validator_fn(v, value, mode) ==
    CASE v.fn = "validate_name" -> validate_name(value)
      [] v.fn = "validate_usb"  -> validate_usb(value)
      [] OTHER ->
            IF mode = "config_message"
            THEN validate_value_range(v.T, convert_bits(v.T, value), v.min, v.max)
            ELSE validate_value(v.T, value, v.min, v.max)

---------------------------------------------------------------------------
(* error-handler.h: error_handler<MaxErrors>; the buffer is the sequence of *)
(* the codes below top_error                                               *)

\* add_error(error::code) on a buffer that is not full: stores the code at
\* top_error and advances.  On a full buffer top_error is the end of the array:
\* the store goes outside the array (see AddError) and the count stays
\* MaxErrors; no run of process_config in this model fills a buffer
add_error(errors, MaxErrors, error_code) ==
    IF Len(errors) < MaxErrors THEN Append(errors, error_code) ELSE errors

\* add_error(parsing_error, file_ptr): column in data.high, line in data.low
add_error_at(errors, MaxErrors, error_id, pos) ==
    LET c0 == code_of_type(category.parsing, error_id)
        c1 == data_segment_assign(c0, make_bitmask(12), 12, IntToBits(pos.column))
        c2 == data_segment_assign(c1, make_bitmask(12), 0, IntToBits(pos.line))
    IN  add_error(errors, MaxErrors, c2)

\* contains_errors
contains_errors(errors) == errors # <<>>

\* the kinds (resp. data fields) recorded in a buffer, in order
error_types(errors) == [i \in 1..Len(errors) |-> code_type(errors[i])]
error_datas(errors) == [i \in 1..Len(errors) |-> code_data(errors[i])]

---------------------------------------------------------------------------
(* setting.h, setting-handler.h *)

\* set_value that copies the whole content
set_value_whole(content) == content

\* setting::set_value(std::string_view): at most max_value_size bytes are kept
set_value(content) == SubSeq(content, 1, Min(Len(content), max_value_size))

\* set_value(std::uint_fast64_t) that copies the bytes up to the last
\* non-zero one only
set_value_bits_trimmed(word) ==
    LET bytes == word_bytes(word)
        used == {k \in 1..8 : bytes[k] # 0}
    IN  SubSeq(bytes, 1, IF used = {} THEN 0
                         ELSE CHOOSE k \in used : \A j \in used : j <= k)

\* setting::set_value(std::uint_fast64_t): the 8 bytes of the word
set_value_bits(word) == word_bytes(word)

\* setting::is_set
is_set(value) == value # <<>>

\* zcopy_max(data.string, size, device_name): the characters before the null
\* terminator it writes
zcopy_max(source, count) == SubSeq(source, 1, Min(Len(source) + 1, count) - 1)

\* the actions with sensor appliers that do not test the trigger's enable
action_fn_unmasked(a, data, config) ==
    CASE a.kind = "device_name" ->
            [config EXCEPT !.device_name = zcopy_max(data, max_name_size)]
      [] a.kind = "usb_detection" -> [config EXCEPT !.usb_detection = data]
      [] a.kind = "usb_interval_ms" ->
            [config EXCEPT !.usb_detection_interval_ms = data]
      [] a.kind = "field" -> [config EXCEPT !.trigger[a.trig][a.field] = data]
      [] a.kind = "write_to" ->
            [config EXCEPT !.trigger[a.trig].write_to[a.field] = data]
      [] OTHER -> [config EXCEPT !.trigger[a.trig].measure[a.field] = data]

\* the action of a setting, applied to the data of its cache
action_fn(a, data, config) ==
    CASE a.kind = "device_name" ->
            [config EXCEPT !.device_name = zcopy_max(data, max_name_size)]
      [] a.kind = "usb_detection" -> [config EXCEPT !.usb_detection = data]
      [] a.kind = "usb_interval_ms" ->
            [config EXCEPT !.usb_detection_interval_ms = data]
      [] a.kind = "field" -> [config EXCEPT !.trigger[a.trig][a.field] = data]
      [] a.kind = "write_to" ->
            [config EXCEPT !.trigger[a.trig].write_to[a.field] = data]
      [] OTHER ->
            LET flag == IF config.trigger[a.trig].enable THEN data ELSE FALSE
                c1   == [config EXCEPT !.trigger[a.trig].measure[a.field] = flag]
            IN  IF a.trig # "time" THEN c1
                ELSE CASE a.field = "thp" ->
                            [c1 EXCEPT !.bme280.measure_temperature = flag,
                                       !.bme280.measure_humidity = flag,
                                       !.bme280.measure_pressure = flag]
                       [] a.field = "accel_gyro" ->
                            [c1 EXCEPT !.bmx160.measure_accelerometer = flag,
                                       !.bmx160.measure_gyroscope = flag]
                       [] a.field = "magnet" ->
                            [c1 EXCEPT !.bmx160.measure_magnetometer = flag]
                       [] OTHER -> [c1 EXCEPT !.veml6030.measure_light = flag]

\* config_handler: setting_handlr{settings_, validation_mode::config_file},
\* whatever the parser
handler_validation_mode == "config_file"

\* setting::validate without the is_set test: the validator also runs on an
\* empty value
setting_validate_empty(idx, value, mode) ==
    LET r == validator_fn(settings_[idx].validator, value, mode)
    IN  [written |-> TRUE, data |-> r.data, error |-> r.error]

\* setting::validate that empties the cache of an unset setting
setting_validate_clearing(idx, value, mode) ==
    IF ~ is_set(value)
    THEN [written |-> TRUE, data |-> nullopt,
          error |-> <<validation_error.setting_unset>>]
    ELSE LET r == validator_fn(settings_[idx].validator, value, mode)
         IN  [written |-> TRUE, data |-> r.data, error |-> r.error]

\* setting::validate: an unset setting yields setting_unset and leaves the
\* cache alone (written = FALSE); otherwise the validator runs, its data goes
\* to the cache and its status is returned
setting_validate(idx, value, mode) ==
    IF ~ is_set(value)
    THEN [written |-> FALSE, data |-> nullopt,
          error |-> <<validation_error.setting_unset>>]
    ELSE LET r == validator_fn(settings_[idx].validator, value, mode)
         IN  [written |-> TRUE, data |-> r.data, error |-> r.error]

\* handle_invalid_setting that discards setting_unset of every setting
handle_invalid_setting_lenient(idx, error_id) ==
    IF error_id = validation_error.setting_unset THEN "none" ELSE "invalid"

\* handle_invalid_setting without the test of setting_type::optional
handle_invalid_setting_strict(idx, error_id) ==
    IF error_id = validation_error.setting_unset THEN "unset" ELSE "invalid"

\* setting_handler::handle_invalid_setting: the buffer that takes the error
\* of setting idx ("unset", "invalid"), or "none" when it is discarded
handle_invalid_setting(idx, error_id) ==
    IF error_id = validation_error.setting_unset
    THEN IF settings_[idx].type = "optional" THEN "none" ELSE "unset"
    ELSE "invalid"

\* add_error for each of the codes in turn
add_errors(errors, MaxErrors, codes) ==
    SubSeq(errors \o codes, 1, Min(Len(errors) + Len(codes), MaxErrors))

\* apply_settings that applies every setting whose cache holds data, valid or not
RECURSIVE apply_settings_cached(_, _, _)
apply_settings_cached(n, res, config) ==
    IF n = 0 THEN config
    ELSE IF res[n].data = nullopt THEN apply_settings_cached(n - 1, res, config)
    ELSE action_fn(settings_[n].action, res[n].data[1],
                   apply_settings_cached(n - 1, res, config))

\* the record after setting::apply of the settings 1 .. n that validated
\* without an error, in order (res = the results of setting_validate)
RECURSIVE apply_settings(_, _, _)
apply_settings(n, res, config) ==
    IF n = 0 THEN config
    ELSE IF res[n].error # nullopt THEN apply_settings(n - 1, res, config)
    ELSE action_fn(settings_[n].action, res[n].data[1],
                   apply_settings(n - 1, res, config))

\* apply_valid_settings whose loop calls setting::apply before
\* setting::validate: a setting is applied from the cache as the previous
\* pass left it (not at all when that cache is empty), then validated
apply_valid_settings_stale(vals, mode, st) ==
    LET ids == [i \in 1..setting_count |-> i]
        res == [i \in 1..setting_count |-> setting_validate(i, vals[i], mode)]
        old == [i \in 1..setting_count |->
                    [data |-> st.cache[i],
                     error |-> IF st.cache[i] = nullopt
                               THEN <<validation_error.setting_unset>>
                               ELSE nullopt]]
        to(buffer) ==
            LET hit == SelectSeq(ids, LAMBDA i :
                            /\ res[i].error # nullopt
                            /\ handle_invalid_setting(i, res[i].error[1]) = buffer)
            IN  [k \in 1..Len(hit) |->
                    code(category.validation, res[hit[k]].error[1], IntToBits(hit[k]))]
    IN  [config  |-> apply_settings(setting_count, old, st.config),
         cache   |-> [i \in 1..setting_count |->
                        IF res[i].written THEN res[i].data ELSE st.cache[i]],
         unset   |-> add_errors(st.unset, setting_count, to("unset")),
         invalid |-> add_errors(st.invalid, setting_count, to("invalid"))]

\* setting_handler::apply_valid_settings: for each setting in order validate
\* it, then handle_invalid_setting or setting::apply.  A setting's validation
\* reads only its own buffer, so the loop is given by its effect on the
\* caches, on the two error buffers and on the record.
\* st = [config, cache, unset, invalid]
apply_valid_settings(vals, mode, st) ==
    LET ids == [i \in 1..setting_count |-> i]
        res == [i \in 1..setting_count |-> setting_validate(i, vals[i], mode)]
        to(buffer) ==
            LET hit == SelectSeq(ids, LAMBDA i :
                            /\ res[i].error # nullopt
                            /\ handle_invalid_setting(i, res[i].error[1]) = buffer)
            IN  [k \in 1..Len(hit) |->
                    code(category.validation, res[hit[k]].error[1], IntToBits(hit[k]))]
    IN  [config  |-> apply_settings(setting_count, res, st.config),
         cache   |-> [i \in 1..setting_count |->
                        IF res[i].written THEN res[i].data ELSE st.cache[i]],
         unset   |-> add_errors(st.unset, setting_count, to("unset")),
         invalid |-> add_errors(st.invalid, setting_count, to("invalid"))]

---------------------------------------------------------------------------
(* default-verification-rules.h, config-handler.h: verification *)

\* verify_data_destination without the test of enable
verify_data_destination_always(config) ==
    IF config.write_to.lora THEN nullopt
    ELSE IF config.write_to.sd THEN nullopt
    ELSE <<verification_error.no_data_destination_enabled>>

\* verify_data_destination with the test of write_to.sd inverted
verify_data_destination_sd(config) ==
    IF ~ config.enable THEN nullopt
    ELSE IF config.write_to.lora THEN nullopt
    ELSE IF ~ config.write_to.sd THEN nullopt
    ELSE <<verification_error.no_data_destination_enabled>>

\* verify_data_destination
verify_data_destination(config) ==
    IF ~ config.enable THEN nullopt
    ELSE IF config.write_to.lora THEN nullopt
    ELSE IF config.write_to.sd THEN nullopt
    ELSE <<verification_error.no_data_destination_enabled>>

\* is_any_trigger_enabled that leaves out the orientation trigger
is_any_trigger_enabled_three(config) ==
    \/ config.time.enable
    \/ config.light.enable
    \/ config.acceleration.enable

\* is_any_trigger_enabled
is_any_trigger_enabled(config) ==
    \/ config.time.enable
    \/ config.light.enable
    \/ config.acceleration.enable
    \/ config.orientation.enable

\* get_default_verification_rules: rule idx (its identifier) applied to a record
rule_verify(idx, config) ==
    CASE idx = verification_identifier.trigger_requirement ->
            IF is_any_trigger_enabled(config.trigger) THEN nullopt
            ELSE <<verification_error.no_trigger_enabled>>
      [] idx = verification_identifier.time_trigger ->
            verify_data_destination(config.trigger.time)
      [] idx = verification_identifier.light_trigger ->
            verify_data_destination(config.trigger.light)
      [] idx = verification_identifier.acceleration_trigger ->
            verify_data_destination(config.trigger.acceleration)
      [] OTHER -> verify_data_destination(config.trigger.orientation)

\* config_handler::verify_main_config from rule idx on
RECURSIVE verify_main_config(_, _, _)
verify_main_config(idx, config, errors) ==
    IF idx > rule_count THEN errors
    ELSE LET error_id == rule_verify(idx, config)
         IN  verify_main_config(idx + 1, config,
                IF error_id # nullopt
                THEN add_error(errors, rule_count,
                        code(category.verification, error_id[1], IntToBits(idx)))
                ELSE errors)

---------------------------------------------------------------------------
(* Documents: the SAX events SAXML raises for a config file.  The callback  *)
(* of an event runs while its last character is handled, i.e. before        *)
(* update_position has counted that character.                              *)

\* number of characters of a tag name
tag_width(tag) ==
    CASE tag \in {"sd"} -> 2
      [] tag \in {"usb", "thp"} -> 3
      [] tag \in {"name", "time", "lora"} -> 4
      [] tag \in {"light"} -> 5
      [] tag \in {"aether", "magnet"} -> 6
      [] tag \in {"trigger", "enabled"} -> 7
      [] tag \in {"write-to"} -> 8
      [] tag \in {"detection"} -> 9
      [] tag \in {"properties", "accel-gyro"} -> 10
      [] tag \in {"interval-ms", "orientation"} -> 11
      [] tag \in {"acceleration"} -> 12
      [] tag \in {"low-threshold"} -> 13
      [] tag \in {"high-threshold"} -> 14
      [] tag \in {"activate-sensors", "lorawan-priority"} -> 16
      [] OTHER -> 21

Open(tag)  == [t |-> "open",  tag |-> tag, content |-> <<>>, width |-> tag_width(tag) + 2]
Close(tag) == [t |-> "close", tag |-> tag, content |-> <<>>, width |-> tag_width(tag) + 3]
Text(c)    == [t |-> "text",  tag |-> "",  content |-> c, width |-> Len(c)]

\* length of the longest common prefix of two tag paths
RECURSIVE common_prefix(_, _)
common_prefix(a, b) ==
    IF a # <<>> /\ b # <<>> /\ a[1] = b[1]
    THEN 1 + common_prefix(Tail(a), Tail(b)) ELSE 0

\* the events that move from open path a to open path b
Move(a, b) ==
    LET k == common_prefix(a, b)
    IN  [i \in 1..(Len(a) - k) |-> Close(a[Len(a) + 1 - i])]
        \o [i \in 1..(Len(b) - k) |-> Open(b[k + i])]

\* the well-nested document that gives each listed setting its text:
\* entries = sequence of <<setting index, text>>, open = path open so far
RECURSIVE Document(_, _)
Document(entries, open) ==
    IF entries = <<>> THEN Move(open, <<>>)
    ELSE LET path == settings_[entries[1][1]].tags
         IN  Move(open, path) \o <<Text(entries[1][2])>>
             \o Document(Tail(entries), path)

\* texts
txt_0 == <<48>>
txt_1 == <<49>>
txt_2 == <<50>>
txt_7 == <<55>>
txt_100 == <<49, 48, 48>>
txt_999 == <<57, 57, 57>>
txt_5000 == <<53, 48, 48, 48>>
txt_on == <<111, 110>>
txt_name == <<65, 49>>
txt_long == [i \in 1..(max_value_size + 1) |-> 49]
txt_long_name == [i \in 1..(max_value_size + 1) |-> IF i <= max_value_size THEN 65 ELSE 33]
txt_flag(b) == IF b THEN txt_1 ELSE txt_0

\* scenario S1: only time/enabled, interval-ms, write-to/lora, write-to/sd
DocS1 ==
    Document(<< <<setting_identifier.time_trigger_enabled, txt_1>>,
                <<setting_identifier.time_trigger_interval, txt_5000>>,
                <<setting_identifier.time_trigger_write_to_lora, txt_1>>,
                <<setting_identifier.time_trigger_write_to_sd, txt_0>> >>, <<>>)

\* a document with a text for every setting (the name only if named):
\* the time trigger enabled as time_en, the other triggers as other_en,
\* every write-to/lora as lora and write-to/sd as sd, every interval as ms
FullEntry(i, d) ==
    LET s == settings_[i]
    IN  <<i, CASE s.validator.fn = "validate_name" -> txt_name
               [] s.validator.fn = "validate_usb" -> txt_on
               [] s.validator.T = "uint32" -> d.ms
               [] s.validator.T = "uint16" -> txt_100
               [] s.validator.T = "int8" -> txt_2
               [] s.action.kind = "write_to" ->
                    txt_flag(IF s.action.field = "lora" THEN d.lora ELSE d.sd)
               [] s.action.kind = "field" ->
                    txt_flag(IF s.action.trig = "time" THEN d.time_en ELSE d.other_en)
               [] OTHER -> txt_1>>

DocFull(d) ==
    Document([i \in 1..(setting_count - (IF d.named THEN 0 ELSE 1)) |->
                FullEntry(IF d.named THEN i ELSE i + 1, d)], <<>>)

\* a document with a text for every setting but the name, in which the
\* lorawan-priority of the time trigger is 7 and every write-to/sd is 0
DocPriority ==
    Document([k \in 1..(setting_count - 1) |->
                IF k + 1 = setting_identifier.time_trigger_lora_priority
                THEN <<k + 1, txt_7>>
                ELSE FullEntry(k + 1, [time_en |-> TRUE, other_en |-> TRUE,
                                       lora |-> TRUE, sd |-> FALSE,
                                       ms |-> txt_5000, named |-> FALSE])], <<>>)

\* only the name, of 33 characters, the last of them a '!'
DocLongName == Document(<< <<setting_identifier.device_name, txt_long_name>> >>, <<>>)

\* 128 opening tags, none of them closed
DocDeep == [k \in 1..128 |-> Open("aether")]

\* the light block opened and closed without a value, then time/enabled
DocSibling ==
    << Open("aether"), Open("trigger"), Open("light"), Close("light"),
       Open("time"), Open("enabled"), Text(txt_1), Close("enabled"),
       Close("time"), Close("trigger"), Close("aether") >>

FullChoices ==
    [time_en : BOOLEAN, other_en : BOOLEAN, lora : BOOLEAN, sd : BOOLEAN,
     ms : {txt_5000, txt_999}, named : BOOLEAN]

\* the documents a run may process whole
Documents == {DocS1, DocSibling, DocPriority, DocDeep, DocLongName} \cup {DocFull(d) : d \in FullChoices}

\* the events a run may raise one by one
FreeEvents ==
    {Open(t) : t \in {"aether", "usb", "detection", "trigger", "time", "enabled"}}
    \cup {Close(""), Text(txt_1), Text(txt_long)}

---------------------------------------------------------------------------
(* Bounds and input sets *)

\* number of SAX events a run may raise one by one
MaxEvents == 4

\* the sizes and contents of the config messages a run may process
MessageSizes == {0, 32, 63, 64, 255}
Frames == {{}, {26, 130}, {25, 26, 130, 131}, 0..511}

---------------------------------------------------------------------------
(* State machine of cfg::process_config *)

InitPipeline ==
    /\ pc = "idle"
    /\ parser_kind = "none"
    /\ todo = <<>>
    /\ document = <<>>
    /\ fuel = 0
    /\ open_tags = <<>>
    /\ stored = {}
    /\ tag_levels = [i \in 1..setting_count |-> 0]
    /\ target_setting = 1
    /\ tag_depth = 0
    /\ handle_tag_called = FALSE
    /\ position = [line |-> 1, column |-> 1]
    /\ parse_errors = <<>>
    /\ message = [null |-> TRUE, size |-> 0, bits |-> {}]
    /\ values = [i \in 1..setting_count |-> <<>>]
    /\ cache = [i \in 1..setting_count |-> nullopt]
    /\ unset_setting_errors = <<>>
    /\ invalid_value_errors = <<>>
    /\ main_cfg = default_main_config
    /\ verification = <<>>
    /\ rules_evaluated = 0

\* the studies of single functions, not started
NoBits == bits_in = <<>> /\ bits_out = <<>>
NoCode == code_in = <<>> /\ code_out = <<>>
NoErrors == eh = <<>>
NoVerify == record_in = <<>> /\ verification_out = <<>>
NoValidate == validate_in = <<>> /\ validate_out = <<>>
NoFirst == first_parse = <<>>
NoSetting == single_setting = <<>>

InitPure == NoBits /\ NoCode /\ NoErrors /\ NoVerify /\ NoValidate /\ NoFirst /\ NoSetting

Init == InitPipeline /\ InitPure

\* process_config_file when load_file fails: a default record marked failed
LoadFileFails ==
    /\ pc = "idle"
    /\ pc' = "done"
    /\ main_cfg' = [default_main_config EXCEPT !.status = "failure"]
    /\ UNCHANGED <<parser_kind, todo, document, fuel, open_tags, stored, tag_levels,
                   target_setting, tag_depth, handle_tag_called, position,
                   parse_errors, message, values, cache, unset_setting_errors,
                   invalid_value_errors, verification, rules_evaluated>>
    /\ UNCHANGED pure_vars

\* parse_config_impl that does not return after recording empty_config and
\* goes on to verify_parsing
ParseEmptyFile_verified ==
    /\ pc = "idle"
    /\ pc' = "parsed"
    /\ parser_kind' = "xml"
    /\ parse_errors' = add_error_at(
                            add_error_at(parse_errors, setting_count,
                                         parsing_error.empty_config, position),
                            setting_count, parsing_error.no_tags_found, position)
    /\ UNCHANGED <<todo, document, fuel, open_tags, stored, tag_levels, target_setting,
                   tag_depth, handle_tag_called, position, message, values, cache,
                   unset_setting_errors, invalid_value_errors, main_cfg,
                   verification, rules_evaluated>>
    /\ UNCHANGED pure_vars

\* process_config_file on a loaded file whose text is empty:
\* xml_parser::parse_config_impl records empty_config and returns
ParseEmptyFile ==
    /\ pc = "idle"
    /\ pc' = "parsed"
    /\ parser_kind' = "xml"
    /\ parse_errors' = add_error_at(parse_errors, setting_count,
                                    parsing_error.empty_config, position)
    /\ UNCHANGED <<todo, document, fuel, open_tags, stored, tag_levels, target_setting,
                   tag_depth, handle_tag_called, position, message, values, cache,
                   unset_setting_errors, invalid_value_errors, main_cfg,
                   verification, rules_evaluated>>
    /\ UNCHANGED pure_vars

\* process_config_file on a non-empty text: parse_config_impl calls
\* reset_parsing and starts execute_parsing.  The text is one of Documents,
\* or is left open and its events are chosen one by one (fuel)
ParseFile ==
    /\ pc = "idle"
    /\ pc' = "events"
    /\ parser_kind' = "xml"
    /\ \/ \E d \in Documents : todo' = d /\ fuel' = 0
       \/ todo' = <<>> /\ fuel' = MaxEvents
    /\ position' = [line |-> 1, column |-> 1]
    /\ parse_errors' = <<>>
    /\ tag_levels' = [i \in 1..setting_count |-> 0]
    /\ handle_tag_called' = FALSE
    /\ UNCHANGED <<document, open_tags, stored, target_setting, tag_depth, message,
                   values,
                   cache, unset_setting_errors, invalid_value_errors, main_cfg,
                   verification, rules_evaluated>>
    /\ UNCHANGED pure_vars

\* the events SAXML may raise next
NextEvents ==
    IF todo # <<>> THEN {Head(todo)} ELSE IF fuel > 0 THEN FreeEvents ELSE {}

\* bookkeeping of one raised event e: consume it, count its characters
Consume(e) ==
    /\ todo' = IF todo # <<>> THEN Tail(todo) ELSE todo
    /\ document' = Append(document, e)
    /\ fuel' = IF todo # <<>> THEN fuel ELSE fuel - 1
    /\ position' = [position EXCEPT !.column = @ + e.width]

\* settings whose tag level equals the depth (tag_depth_matches)
tag_depth_matches(index) == tag_levels[index] = tag_depth

\* settings for which tag_name_matches compares against a tag slot that is
\* empty: tag(tag_depth) is a null char const*, and converting it to a
\* std::string_view is undefined
null_tag_compared ==
    {i \in 1..setting_count : tag_depth_matches(i) /\ Len(settings_[i].tags) <= tag_depth}

\* xml_parser::handle_tag.  ub is what the undefined comparison of a null
\* tag does in this call: "nomatch", "match" or "crash"
handle_tag(tag, ub) ==
    LET matched ==
            IF tag_depth < max_tag_depth
            THEN {i \in 1..setting_count :
                    /\ tag_depth_matches(i)
                    /\ IF Len(settings_[i].tags) > tag_depth
                       THEN settings_[i].tags[tag_depth + 1] = tag
                       ELSE ub = "match"}
            ELSE {}
    IN  /\ tag_levels' = [i \in 1..setting_count |->
                            IF i \in matched THEN tag_depth + 1 ELSE tag_levels[i]]
        /\ target_setting' = IF matched = {} THEN target_setting
                             ELSE CHOOSE i \in matched : \A j \in matched : j <= i
        /\ tag_depth' = int_least8(tag_depth + 1)
        /\ handle_tag_called' = TRUE

HandleTag ==
    /\ pc = "events"
    /\ \E e \in NextEvents :
        /\ e.t = "open"
        /\ Consume(e)
        /\ open_tags' = Append(open_tags, e.tag)
        /\ \E ub \in IF tag_depth < max_tag_depth /\ null_tag_compared # {}
                     THEN {"nomatch", "match", "crash"} ELSE {"nomatch"} :
            IF ub = "crash"
            THEN /\ pc' = "crashed"
                 /\ UNCHANGED <<tag_levels, target_setting, tag_depth,
                                handle_tag_called>>
            ELSE /\ pc' = pc
                 /\ handle_tag(e.tag, ub)
    /\ UNCHANGED <<parser_kind, stored, parse_errors, message, values, cache,
                   unset_setting_errors, invalid_value_errors, main_cfg,
                   verification, rules_evaluated>>
    /\ UNCHANGED pure_vars

\* xml_parser::handle_tag_end
HandleTagEnd ==
    /\ pc = "events"
    /\ \E e \in NextEvents :
        /\ e.t = "close"
        /\ Consume(e)
    /\ tag_depth' = int_least8(tag_depth - 1)
    /\ open_tags' = IF open_tags = <<>> THEN open_tags
                    ELSE SubSeq(open_tags, 1, Len(open_tags) - 1)
    /\ UNCHANGED <<pc, parser_kind, stored, tag_levels, target_setting,
                   handle_tag_called, parse_errors, message, values, cache,
                   unset_setting_errors, invalid_value_errors, main_cfg,
                   verification, rules_evaluated>>
    /\ UNCHANGED pure_vars

\* xml_parser::is_final_tag_reached
is_final_tag_reached(index) ==
    \/ tag_depth = max_tag_depth
    \/ (tag_depth < max_tag_depth /\ Len(settings_[index].tags) <= tag_depth)

\* xml_parser::handle_content
HandleContent ==
    /\ pc = "events"
    /\ \E e \in NextEvents :
        /\ e.t = "text"
        /\ Consume(e)
        /\ IF tag_depth_matches(target_setting) /\ is_final_tag_reached(target_setting)
           THEN /\ parse_errors' =
                        IF Len(e.content) > max_value_size
                        THEN add_error_at(parse_errors, setting_count,
                                parsing_error.exceeds_max_value_length,
                                [position EXCEPT !.column = @ + e.width - 1])
                        ELSE parse_errors
                /\ values' = [values EXCEPT ![target_setting] = set_value(e.content)]
                /\ tag_levels' = [tag_levels EXCEPT ![target_setting] = 0]
                /\ stored' = stored \cup
                        {[setting |-> target_setting, tags |-> open_tags]}
           ELSE UNCHANGED <<parse_errors, values, tag_levels, stored>>
    /\ UNCHANGED <<pc, parser_kind, open_tags, target_setting, tag_depth,
                   handle_tag_called, message, cache, unset_setting_errors,
                   invalid_value_errors, main_cfg, verification, rules_evaluated>>
    /\ UNCHANGED pure_vars

\* end of execute_parsing, then xml_parser::verify_parsing
VerifyParsing ==
    /\ pc = "events"
    /\ todo = <<>>
    /\ pc' = "parsed"
    /\ fuel' = 0
    /\ LET e1 == IF tag_depth > 0
                 THEN add_error(parse_errors, setting_count,
                        code(category.parsing, parsing_error.missing_closing_tag,
                             IntToBits(tag_depth)))
                 ELSE IF tag_depth < 0
                 THEN add_error(parse_errors, setting_count,
                        code(category.parsing, parsing_error.missing_opening_tag,
                             IntToBits(0 - tag_depth)))
                 ELSE parse_errors
       IN  parse_errors' =
                IF ~ handle_tag_called
                THEN add_error_at(e1, setting_count, parsing_error.no_tags_found,
                                  position)
                ELSE e1
    /\ UNCHANGED <<parser_kind, todo, document, open_tags, stored, tag_levels, target_setting,
                   tag_depth, handle_tag_called, position, message, values, cache,
                   unset_setting_errors, invalid_value_errors, main_cfg,
                   verification, rules_evaluated>>
    /\ UNCHANGED pure_vars

\* message_parser::validate_config_message on a fresh err_handler
validate_config_message(config) ==
    LET e1 == IF config.null
              THEN add_error(<<>>, message_error_capacity,
                        code(category.parsing, parsing_error.invalid_message_pointer, {}))
              ELSE <<>>
    IN  IF config.size < byte_boundary
        THEN add_error(e1, message_error_capacity,
                code(category.parsing, parsing_error.insufficient_message_size,
                     IntToBits(config.size)))
        ELSE e1

\* parse_config_impl without the return on a validation error
parse_config_message_unchecked(config, vals) ==
    [i \in 1..setting_count |->
        IF settings_[i].size # 0
        THEN set_value_bits(extract_bits(config.bits, settings_[i].pos,
                                         settings_[i].size))
        ELSE vals[i]]

\* message_parser::parse_config_impl: the value buffers after the call
parse_config_message(config, vals) ==
    IF contains_errors(validate_config_message(config)) THEN vals
    ELSE [i \in 1..setting_count |->
            IF settings_[i].size # 0
            THEN set_value_bits(extract_bits(config.bits, settings_[i].pos,
                                             settings_[i].size))
            ELSE vals[i]]

\* process_config_message: config_handler<message_parser>{} parses the message
ParseMessage ==
    /\ pc = "idle"
    /\ pc' = "parsed"
    /\ parser_kind' = "message"
    /\ \E null \in BOOLEAN, size \in MessageSizes, bits \in Frames :
        message' = [null |-> null, size |-> size, bits |-> IF null THEN {} ELSE bits]
    /\ parse_errors' = validate_config_message(message')
    /\ values' = parse_config_message(message', values)
    /\ UNCHANGED <<todo, document, fuel, open_tags, stored, tag_levels, target_setting,
                   tag_depth, handle_tag_called, position, cache,
                   unset_setting_errors, invalid_value_errors, main_cfg,
                   verification, rules_evaluated>>
    /\ UNCHANGED pure_vars

\* config_handler::process_config, second half:
\* setting_handlr.apply_valid_settings(main_cfg_)
ApplyValidSettings ==
    /\ pc = "parsed"
    /\ pc' = "applied"
    /\ \E st \in {apply_valid_settings(values, handler_validation_mode,
                    [config |-> main_cfg, cache |-> cache,
                     unset |-> unset_setting_errors,
                     invalid |-> invalid_value_errors])} :
           /\ main_cfg' = st.config
           /\ cache' = st.cache
           /\ unset_setting_errors' = st.unset
           /\ invalid_value_errors' = st.invalid
    /\ UNCHANGED <<parser_kind, todo, document, fuel, open_tags, stored, tag_levels,
                   target_setting, tag_depth, handle_tag_called, position,
                   parse_errors, message, values, verification, rules_evaluated>>
    /\ UNCHANGED pure_vars

\* setting_handler::has_validation_errors
has_validation_errors ==
    contains_errors(unset_setting_errors) \/ contains_errors(invalid_value_errors)

\* config_handler::has_config_errors
has_config_errors == contains_errors(parse_errors) \/ has_validation_errors

\* process_config that also resets the record when has_config_errors()
ReportConfigErrors_reset ==
    /\ pc = "applied"
    /\ has_config_errors
    /\ pc' = "done"
    /\ main_cfg' = [reset(main_cfg) EXCEPT !.status = "failure"]
    /\ UNCHANGED <<parser_kind, todo, document, fuel, open_tags, stored, tag_levels,
                   target_setting, tag_depth, handle_tag_called, position,
                   parse_errors, message, values, cache, unset_setting_errors,
                   invalid_value_errors, verification, rules_evaluated>>
    /\ UNCHANGED pure_vars

\* cfg::process_config when has_config_errors(): report, mark failed, return
ReportConfigErrors ==
    /\ pc = "applied"
    /\ has_config_errors
    /\ pc' = "done"
    /\ main_cfg' = [main_cfg EXCEPT !.status = "failure"]
    /\ UNCHANGED <<parser_kind, todo, document, fuel, open_tags, stored, tag_levels,
                   target_setting, tag_depth, handle_tag_called, position,
                   parse_errors, message, values, cache, unset_setting_errors,
                   invalid_value_errors, verification, rules_evaluated>>
    /\ UNCHANGED pure_vars

\* process_config that verifies whether or not has_config_errors()
VerifyMainConfig_unguarded ==
    /\ pc = "applied"
    /\ pc' = "done"
    /\ verification' = verify_main_config(1, main_cfg, <<>>)
    /\ rules_evaluated' = rule_count
    /\ main_cfg' = IF contains_errors(verification')
                   THEN [reset(main_cfg) EXCEPT !.status = "failure"]
                   ELSE main_cfg
    /\ UNCHANGED <<parser_kind, todo, document, fuel, open_tags, stored, tag_levels,
                   target_setting, tag_depth, handle_tag_called, position,
                   parse_errors, message, values, cache, unset_setting_errors,
                   invalid_value_errors>>
    /\ UNCHANGED pure_vars

\* process_config that marks the record failed without reset_main_config
VerifyMainConfig_keep ==
    /\ pc = "applied"
    /\ ~ has_config_errors
    /\ pc' = "done"
    /\ verification' = verify_main_config(1, main_cfg, <<>>)
    /\ rules_evaluated' = rule_count
    /\ main_cfg' = IF contains_errors(verification')
                   THEN [main_cfg EXCEPT !.status = "failure"]
                   ELSE main_cfg
    /\ UNCHANGED <<parser_kind, todo, document, fuel, open_tags, stored, tag_levels,
                   target_setting, tag_depth, handle_tag_called, position,
                   parse_errors, message, values, cache, unset_setting_errors,
                   invalid_value_errors>>
    /\ UNCHANGED pure_vars

\* cfg::process_config otherwise: verify_main_config; on a verification
\* error reset_main_config and mark failed; return
VerifyMainConfig ==
    /\ pc = "applied"
    /\ ~ has_config_errors
    /\ pc' = "done"
    /\ verification' = verify_main_config(1, main_cfg, <<>>)
    /\ rules_evaluated' = rule_count
    /\ main_cfg' = IF contains_errors(verification')
                   THEN [reset(main_cfg) EXCEPT !.status = "failure"]
                   ELSE main_cfg
    /\ UNCHANGED <<parser_kind, todo, document, fuel, open_tags, stored, tag_levels,
                   target_setting, tag_depth, handle_tag_called, position,
                   parse_errors, message, values, cache, unset_setting_errors,
                   invalid_value_errors>>
    /\ UNCHANGED pure_vars

\* the caller has the record; the next call constructs a new config_handler
Return ==
    /\ pc = "done"
    /\ pc' = "idle"
    /\ parser_kind' = "none"
    /\ todo' = <<>>
    /\ document' = <<>>
    /\ fuel' = 0
    /\ open_tags' = <<>>
    /\ stored' = {}
    /\ tag_levels' = [i \in 1..setting_count |-> 0]
    /\ target_setting' = 1
    /\ tag_depth' = 0
    /\ handle_tag_called' = FALSE
    /\ position' = [line |-> 1, column |-> 1]
    /\ parse_errors' = <<>>
    /\ message' = [null |-> TRUE, size |-> 0, bits |-> {}]
    /\ values' = [i \in 1..setting_count |-> <<>>]
    /\ cache' = [i \in 1..setting_count |-> nullopt]
    /\ unset_setting_errors' = <<>>
    /\ invalid_value_errors' = <<>>
    /\ main_cfg' = default_main_config
    /\ verification' = <<>>
    /\ rules_evaluated' = 0
    /\ UNCHANGED pure_vars

Next ==
    \/ LoadFileFails
    \/ ParseEmptyFile
    \/ ParseFile
    \/ HandleTag
    \/ HandleTagEnd
    \/ HandleContent
    \/ VerifyParsing
    \/ ParseMessage
    \/ ApplyValidSettings
    \/ ReportConfigErrors
    \/ VerifyMainConfig
    \/ Return

Spec == Init /\ [][Next]_vars

---------------------------------------------------------------------------
(* extract_bits on its own: a span of a zeroed 64-byte buffer is written,   *)
(* then extracted                                                          *)

\* the 64-bit values written: none, all, alternating and end bits
BitValues == {{}, 0..63, {b \in 0..63 : b % 2 = 0}, {0, 31, 32, 63}}

\* every bitspan (pos, size) inside the buffer, with every value
BitsInputs ==
    {in \in [pos : 0..(8 * byte_boundary - 1), size : 1..64, value : BitValues] :
        in.pos + in.size <= 8 * byte_boundary}

\* the buffer with value mod 2^size written MSB first at bit offset pos
WriteBits(in) == {in.pos + (in.size - 1 - b) : b \in in.value \cap (0..(in.size - 1))}

InitBits ==
    /\ InitPipeline
    /\ bits_in \in BitsInputs
    /\ bits_out = <<>>
    /\ NoCode /\ NoErrors /\ NoVerify /\ NoValidate /\ NoFirst /\ NoSetting

ExtractBits ==
    /\ bits_out = <<>>
    /\ bits_out' = <<extract_bits(WriteBits(bits_in), bits_in.pos, bits_in.size)>>
    /\ UNCHANGED <<bits_in, code_in, code_out, eh, record_in, verification_out,
                   validate_in, validate_out, first_parse, single_setting>>
    /\ UNCHANGED pipeline_vars

NextBits == ExtractBits

SpecBits == InitBits /\ [][NextBits]_vars

---------------------------------------------------------------------------
(* extract_bits on its own: the bytes of the source it reads                *)

InitReads ==
    /\ InitPipeline
    /\ bits_in \in {in \in BitsInputs : in.value = {}}
    /\ bits_out = <<>>
    /\ NoCode /\ NoErrors /\ NoVerify /\ NoValidate /\ NoFirst /\ NoSetting

ReadBits ==
    /\ bits_out = <<>>
    /\ bits_out' = <<[reads |-> extract_reads(bits_in.pos, bits_in.size),
                      word |-> extract_bits(WriteBits(bits_in), bits_in.pos,
                                            bits_in.size)]>>
    /\ UNCHANGED <<bits_in, code_in, code_out, eh, record_in, verification_out,
                   validate_in, validate_out, first_parse, single_setting>>
    /\ UNCHANGED pipeline_vars

NextReads == ReadBits

SpecReads == InitReads /\ [][NextReads]_vars

---------------------------------------------------------------------------
(* error::code on its own: a code is built from a kind and data             *)

\* the kinds of each category of error-types.h
KindsOf(cat) ==
    CASE cat = category.parsing -> 0..7
      [] cat = category.validation -> 0..11
      [] OTHER -> 0..2

\* data values: zero, every single bit of the data segment, all its bits
DataValues == {0, Pow2(segment_size_data) - 1} \cup {Pow2(k) : k \in 0..(segment_size_data - 1)}

CodeInputs ==
    {in \in [category : {category.parsing, category.validation, category.verification},
             kind : 0..11, data : DataValues] : in.kind \in KindsOf(in.category)}

InitCode ==
    /\ InitPipeline
    /\ NoBits
    /\ code_in \in CodeInputs
    /\ code_out = <<>>
    /\ NoErrors /\ NoVerify /\ NoValidate /\ NoFirst /\ NoSetting

PackCode ==
    /\ code_out = <<>>
    /\ code_out' = <<code(code_in.category, code_in.kind, IntToBits(code_in.data))>>
    /\ UNCHANGED <<bits_in, bits_out, code_in, eh, record_in, verification_out,
                   validate_in, validate_out, first_parse, single_setting>>
    /\ UNCHANGED pipeline_vars

NextCode == PackCode

SpecCode == InitCode /\ [][NextCode]_vars

---------------------------------------------------------------------------
(* error::code on its own: a code is built from a kind and any integer,     *)
(* then one part of its data segment is assigned                            *)

\* data values: negative ones, those of the data segment and beyond it
SegmentData ==
    {-2147483647, -16777217, -16777216, -2, -1, 0, 1, 4095, 4096, 16777215,
     16777216, 16777217, 1073741824, 2147483647}

\* values assigned to a part of the data segment
PartData == {-1, 0, 1, 171, 255, 256, 4095, 4096, 16777216}

SegmentInputs ==
    {in \in [category : {category.parsing, category.validation, category.verification},
             kind : 0..11, data : SegmentData, part : {"none"}, part_data : {0}] :
        in.kind \in KindsOf(in.category)}

InitSegment ==
    /\ InitPipeline
    /\ NoBits
    /\ code_in \in SegmentInputs
    /\ code_out = <<>>
    /\ NoErrors /\ NoVerify /\ NoValidate /\ NoFirst /\ NoSetting

\* code{error_id, data} as add_error(error_id, data) constructs it
ConstructCode ==
    /\ code_out = <<>>
    /\ code_out' = <<code(code_in.category, code_in.kind, to_uint32(code_in.data))>>
    /\ UNCHANGED <<bits_in, bits_out, code_in, eh, record_in, verification_out,
                   validate_in, validate_out, first_parse, single_setting>>
    /\ UNCHANGED pipeline_vars

\* code.data.<part> = part_data
AssignPart ==
    /\ Len(code_out) = 1
    /\ \E part \in DOMAIN data_format, d \in PartData :
            /\ code_in' = [code_in EXCEPT !.part = part, !.part_data = d]
            /\ code_out' = Append(code_out,
                    data_segment_assign(code_out[1], data_format[part].mask,
                                        data_format[part].offset, to_uint32(d)))
    /\ UNCHANGED <<bits_in, bits_out, eh, record_in, verification_out,
                   validate_in, validate_out, first_parse, single_setting>>
    /\ UNCHANGED pipeline_vars

NextSegment == ConstructCode \/ AssignPart

SpecSegment == InitSegment /\ [][NextSegment]_vars

---------------------------------------------------------------------------
(* error_handler on its own: codes are added to an empty handler            *)

\* largest capacity (MaxErrors) of the handlers studied
MaxCapacity == 3

\* the codes added
ErrorCodes ==
    {code(category.parsing, parsing_error.missing_closing_tag, IntToBits(k)) :
        k \in 1..3}

\* a handler of capacity N and the N + 1 codes added to it
ErrorInputs ==
    UNION {[capacity : {n}, input : [1..(n + 1) -> ErrorCodes]] : n \in 1..MaxCapacity}

\* errors = the slots before top_error; outside = the codes stored outside the
\* array; intact = the handler's own members are as add_error left them
InitErrors ==
    /\ InitPipeline
    /\ \E in \in ErrorInputs :
            eh = [capacity |-> in.capacity, input |-> in.input, added |-> 0,
                  errors |-> <<>>, outside |-> <<>>, intact |-> TRUE]
    /\ NoBits /\ NoCode /\ NoVerify /\ NoValidate /\ NoFirst /\ NoSetting

\* error_handler::add_error(error::code) of the next code.  When the buffer is
\* full, *top_error is one past the array: the store is undefined and hits
\* either what lies after the array ("adjacent") or the handler's own
\* top_error, which is declared right after it ("handler")
AddError ==
    /\ eh.intact
    /\ eh.added < Len(eh.input)
    /\ LET error_code == eh.input[eh.added + 1]
       IN  IF Len(eh.errors) < eh.capacity
           THEN eh' = [eh EXCEPT !.added = @ + 1,
                                 !.errors = add_error(@, eh.capacity, error_code)]
           ELSE \E ub \in {"adjacent", "handler"} :
                    eh' = [eh EXCEPT !.added = @ + 1,
                                     !.outside = IF ub = "adjacent"
                                                 THEN Append(@, error_code) ELSE @,
                                     !.intact = (ub = "adjacent")]
    /\ UNCHANGED <<bits_in, bits_out, code_in, code_out, record_in, verification_out,
                   validate_in, validate_out, first_parse, single_setting>>
    /\ UNCHANGED pipeline_vars

NextErrors == AddError

SpecErrors == InitErrors /\ [][NextErrors]_vars

---------------------------------------------------------------------------
(* error_handler on its own under a sequence of add_error and clear_errors  *)
(* calls                                                                    *)

\* number of calls made on the handler
MaxHandlerCalls == 5

\* errors = the slots before top_error; wild = top_error no longer points
\* into the array or one past it, and distance is then what std::distance
\* from errors.cbegin() to it yields
InitCalls ==
    /\ InitPipeline
    /\ \E n \in 1..MaxCapacity :
            eh = [capacity |-> n, errors |-> <<>>, wild |-> FALSE, distance |-> 0,
                  op |-> "construct", calls |-> 0]
    /\ NoBits /\ NoCode /\ NoVerify /\ NoValidate /\ NoFirst /\ NoSetting

\* error_handler::error_count
error_count(h) == IF h.wild THEN h.distance ELSE Len(h.errors)

\* error_handler::is_error_limit_reached: top_error == errors.cend()
is_error_limit_reached(h) == error_count(h) = h.capacity

\* error_handler::add_error(error::code).  On a full buffer the store through
\* top_error goes one past the array, which is undefined: it lands in padding
\* or in what follows the handler ("adjacent") and the call returns, or it
\* lands on top_error, the member declared after the array ("handler");
\* top_error then holds the bits of the code, is not cend() and is advanced,
\* and points below or above the array
AddErrorCall ==
    /\ ~ eh.wild
    /\ eh.calls < MaxHandlerCalls
    /\ \E error_code \in ErrorCodes :
        IF Len(eh.errors) < eh.capacity
        THEN eh' = [eh EXCEPT !.errors = add_error(@, eh.capacity, error_code),
                              !.op = "add_error", !.calls = @ + 1]
        ELSE \E ub \in {"adjacent", "handler"} :
                IF ub = "adjacent"
                THEN eh' = [eh EXCEPT !.op = "add_error", !.calls = @ + 1]
                ELSE \E d \in {-1, eh.capacity + 1} :
                        eh' = [eh EXCEPT !.wild = TRUE, !.distance = d,
                                         !.op = "add_error", !.calls = @ + 1]
    /\ UNCHANGED <<bits_in, bits_out, code_in, code_out, record_in, verification_out,
                   validate_in, validate_out, first_parse, single_setting>>
    /\ UNCHANGED pipeline_vars

\* error_handler::clear_errors: top_error = errors.begin()
ClearErrors ==
    /\ eh.calls < MaxHandlerCalls
    /\ eh' = [eh EXCEPT !.errors = <<>>, !.wild = FALSE, !.distance = 0,
                        !.op = "clear_errors", !.calls = @ + 1]
    /\ UNCHANGED <<bits_in, bits_out, code_in, code_out, record_in, verification_out,
                   validate_in, validate_out, first_parse, single_setting>>
    /\ UNCHANGED pipeline_vars

NextCalls == AddErrorCall \/ ClearErrors

SpecCalls == InitCalls /\ [][NextCalls]_vars

---------------------------------------------------------------------------
(* error_handler::log_errors on its own: a handler of capacity N holding 0  *)
(* to N codes is logged.  output is what reaches aether_log, in order: the  *)
(* message, the formatted codes, the contents of an unwritten buffer        *)

\* a handler with its codes and the error_msg argument of log_errors
LogInputs ==
    UNION {[capacity : {n}, errors : UNION {[1..k -> ErrorCodes] : k \in 0..n},
            error_msg : {"", "[ERROR]"}] : n \in 1..MaxCapacity}

InitLog ==
    /\ InitPipeline
    /\ \E in \in LogInputs :
            eh = [capacity |-> in.capacity, errors |-> in.errors,
                  error_msg |-> in.error_msg, logged |-> FALSE, output |-> <<>>]
    /\ NoBits /\ NoCode /\ NoVerify /\ NoValidate /\ NoFirst /\ NoSetting

\* error_handler::log_errors(error_msg): returns at once when the buffer is
\* full; otherwise writes the message unless it is empty, formats the codes
\* into the local array and writes the array.  Without codes the array is
\* written as it was allocated: reading it is undefined and yields nothing
\* ("empty", its first char is 0) or whatever it holds ("garbage")
LogErrors ==
    /\ ~ eh.logged
    /\ IF Len(eh.errors) = eh.capacity
       THEN eh' = [eh EXCEPT !.logged = TRUE]
       ELSE LET text == IF eh.error_msg = "" THEN <<>>
                        ELSE <<[kind |-> "text", code |-> {}]>>
                codes == [k \in 1..Len(eh.errors) |->
                            [kind |-> "code", code |-> eh.errors[k]]]
            IN  \E ub \in IF eh.errors = <<>> THEN {"empty", "garbage"} ELSE {"empty"} :
                    eh' = [eh EXCEPT
                            !.logged = TRUE,
                            !.output = text \o codes \o
                                IF ub = "garbage"
                                THEN <<[kind |-> "uninitialized", code |-> {}]>>
                                ELSE <<>>]
    /\ UNCHANGED <<bits_in, bits_out, code_in, code_out, record_in, verification_out,
                   validate_in, validate_out, first_parse, single_setting>>
    /\ UNCHANGED pipeline_vars

NextLog == LogErrors

SpecLog == InitLog /\ [][NextLog]_vars

---------------------------------------------------------------------------
(* verify_main_config on its own: the default rules applied to a record     *)

\* the records verified: the default record with every combination of
\* enable, write_to.lora and write_to.sd of the four triggers
VerifyInputs ==
    {[default_main_config EXCEPT !.trigger =
        [t \in triggers |->
            [default_main_config.trigger[t] EXCEPT
                !.enable = c[t].enable,
                !.write_to = [lora |-> c[t].lora, sd |-> c[t].sd]]]] :
     c \in [triggers -> [enable : BOOLEAN, lora : BOOLEAN, sd : BOOLEAN]]}

InitVerify ==
    /\ InitPipeline
    /\ record_in \in VerifyInputs
    /\ verification_out = <<>>
    /\ NoBits /\ NoCode /\ NoErrors /\ NoValidate /\ NoFirst /\ NoSetting

\* config_handler::verify_main_config with the default rules
Verify ==
    /\ verification_out = <<>>
    /\ verification_out' = <<verify_main_config(1, record_in, <<>>)>>
    /\ UNCHANGED <<bits_in, bits_out, code_in, code_out, eh, record_in,
                   validate_in, validate_out, first_parse, single_setting>>
    /\ UNCHANGED pipeline_vars

NextVerify == Verify

SpecVerify == InitVerify /\ [][NextVerify]_vars

---------------------------------------------------------------------------
(* xml_parser::parse_config called twice with the same non-empty text, the  *)
(* second time with a fresh copy of the settings                            *)

\* what the first call left: the error buffer and the setting buffers
FirstParse == [errors |-> parse_errors, values |-> values]

\* the second call on the same parser, after set_settings with a fresh copy
\* of the settings: reset_parsing resets the position, the errors, the tag
\* levels and handle_tag_called; tag_depth and target_setting keep the
\* values the first call left
ParseAgain ==
    /\ pc = "parsed"
    /\ first_parse = <<>>
    /\ pc' = "events"
    /\ first_parse' = <<FirstParse>>
    /\ todo' = document
    /\ document' = <<>>
    /\ fuel' = 0
    /\ open_tags' = <<>>
    /\ stored' = {}
    /\ values' = [i \in 1..setting_count |-> <<>>]
    /\ position' = [line |-> 1, column |-> 1]
    /\ parse_errors' = <<>>
    /\ tag_levels' = [i \in 1..setting_count |-> 0]
    /\ handle_tag_called' = FALSE
    /\ UNCHANGED <<parser_kind, target_setting, tag_depth, message, cache,
                   unset_setting_errors, invalid_value_errors, main_cfg,
                   verification, rules_evaluated>>
    /\ UNCHANGED <<bits_in, bits_out, code_in, code_out, eh, record_in,
                   verification_out, validate_in, validate_out, single_setting>>

\* the second call on a newly constructed parser with a fresh copy of the
\* settings: every member has its initial value
ParseAgainFresh ==
    /\ pc = "parsed"
    /\ first_parse = <<>>
    /\ pc' = "events"
    /\ first_parse' = <<FirstParse>>
    /\ todo' = document
    /\ document' = <<>>
    /\ fuel' = 0
    /\ open_tags' = <<>>
    /\ stored' = {}
    /\ values' = [i \in 1..setting_count |-> <<>>]
    /\ position' = [line |-> 1, column |-> 1]
    /\ parse_errors' = <<>>
    /\ tag_levels' = [i \in 1..setting_count |-> 0]
    /\ handle_tag_called' = FALSE
    /\ target_setting' = 1
    /\ tag_depth' = 0
    /\ UNCHANGED <<parser_kind, message, cache, unset_setting_errors,
                   invalid_value_errors, main_cfg, verification, rules_evaluated>>
    /\ UNCHANGED <<bits_in, bits_out, code_in, code_out, eh, record_in,
                   verification_out, validate_in, validate_out, single_setting>>

NextTwice ==
    \/ ParseFile
    \/ HandleTag
    \/ HandleTagEnd
    \/ HandleContent
    \/ VerifyParsing
    \/ ParseAgain
    \/ ParseAgainFresh

SpecTwice == Init /\ [][NextTwice]_vars

---------------------------------------------------------------------------
(* validate<T, MinMax...> on its own in validation_mode::config_message:    *)
(* the buffer of a setting is filled by setting::set_value(uint_fast64_t),  *)
(* then validated                                                           *)

\* the validate<T, MinMax...> instances of get_default_settings
RangeValidators == {V_bool, V_ms, V_u16, V_prio}

\* the values extracted from a config message
ExtractedValues == (0..31) \cup {100, 127, 999, 1000, 5000, 65535}

InitValidate ==
    /\ InitPipeline
    /\ \E v \in RangeValidators, x \in ExtractedValues :
            validate_in = <<[validator |-> v, x |-> x]>>
    /\ validate_out = <<>>
    /\ NoBits /\ NoCode /\ NoErrors /\ NoVerify /\ NoFirst /\ NoSetting

\* set_value(x), then the validator of the setting in config_message mode
Validate ==
    /\ validate_in # <<>>
    /\ validate_out = <<>>
    /\ validate_out' = <<validator_fn(validate_in[1].validator,
                                       set_value_bits(IntToBits(validate_in[1].x)),
                                       "config_message")>>
    /\ UNCHANGED pipeline_vars
    /\ UNCHANGED <<bits_in, bits_out, code_in, code_out, eh, record_in,
                   verification_out, validate_in, first_parse, single_setting>>

NextValidate == Validate

SpecValidate == InitValidate /\ [][NextValidate]_vars

---------------------------------------------------------------------------
(* dispatch_validator<validate_usb<USB_DETECTION>> on its own in            *)
(* validation_mode::config_message.  USB_DETECTION is declared outside the  *)
(* configuration sources: its three enumerators ON, INTERVAL and OFF have   *)
(* distinct underlying values, here any that fit the two bits of the        *)
(* setting's bitspan                                                        *)

UsbLabels == {"ON", "INTERVAL", "OFF"}

\* the possible underlying values of the enumerators
UsbDiscriminants ==
    {d \in [UsbLabels -> 0..3] : \A a, b \in UsbLabels : a # b => d[a] # d[b]}

InitUsb ==
    /\ InitPipeline
    /\ \E d \in UsbDiscriminants, x \in 0..3 :
            validate_in = <<[validator |-> V_usb, x |-> x, discriminants |-> d]>>
    /\ validate_out = <<>>
    /\ NoBits /\ NoCode /\ NoErrors /\ NoVerify /\ NoFirst /\ NoSetting

SpecUsb == InitUsb /\ [][NextValidate]_vars

---------------------------------------------------------------------------
(* validate<T, MinMax...> on its own in validation_mode::config_file: the   *)
(* buffer of a setting holds the decimal text of a number                   *)

\* the decimal digits of a natural number, as characters
RECURSIVE DecimalDigits(_)
DecimalDigits(n) ==
    IF n < 10 THEN <<48 + n>> ELSE Append(DecimalDigits(n \div 10), 48 + (n % 10))

\* the decimal text of an integer
Decimal(n) == IF n < 0 THEN <<45>> \o DecimalDigits(0 - n) ELSE DecimalDigits(n)

\* the numbers written in a config file; huge stands for 4294967296, which
\* no type of a setting holds
FileNumbers ==
    {[n |-> n, huge |-> FALSE, text |-> Decimal(n)] :
        n \in {-200, -129, -128, -2, -1, 0, 1, 2, 3, 4, 7, 100, 127, 128, 255, 256,
               999, 1000, 1001, 5000, 65535, 65536, 70000, 2147483647}}
    \cup {[n |-> 0, huge |-> TRUE, text |-> <<52, 50, 57, 52, 57, 54, 55, 50, 57, 54>>]}

InitFileNumber ==
    /\ InitPipeline
    /\ \E v \in RangeValidators, x \in FileNumbers :
            validate_in = <<[validator |-> v, x |-> x]>>
    /\ validate_out = <<>>
    /\ NoBits /\ NoCode /\ NoErrors /\ NoVerify /\ NoFirst /\ NoSetting

\* set_value(text), then the validator of the setting in config_file mode
ValidateFileNumber ==
    /\ validate_in # <<>>
    /\ validate_out = <<>>
    /\ validate_out' = <<validator_fn(validate_in[1].validator,
                                       set_value(validate_in[1].x.text),
                                       "config_file")>>
    /\ UNCHANGED pipeline_vars
    /\ UNCHANGED <<bits_in, bits_out, code_in, code_out, eh, record_in,
                   verification_out, validate_in, first_parse, single_setting>>

NextFileNumber == ValidateFileNumber

SpecFileNumber == InitFileNumber /\ [][NextFileNumber]_vars

---------------------------------------------------------------------------
(* The validate<T, MinMax...> validators on texts of a config file that are *)
(* not decimal numbers                                                      *)

\* texts with one of the characters 'x', ' ', '.', '+', ',' at the start or
\* after the digits "1", "42", "999", followed by nothing or by "7"
InvalidTexts ==
    {[text |-> pre \o <<bad>> \o post] :
        pre \in {<<>>, txt_1, <<52, 50>>, txt_999},
        bad \in {120, 32, 46, 43, 44},
        post \in {<<>>, txt_7}}

InitFileText ==
    /\ InitPipeline
    /\ \E v \in RangeValidators, x \in InvalidTexts :
            validate_in = <<[validator |-> v, x |-> x]>>
    /\ validate_out = <<>>
    /\ NoBits /\ NoCode /\ NoErrors /\ NoVerify /\ NoFirst /\ NoSetting

SpecFileText == InitFileText /\ [][NextFileNumber]_vars

---------------------------------------------------------------------------
(* One setting of get_default_settings under a sequence of set_value and    *)
(* validate calls                                                           *)

\* number of calls made on the setting
MaxCalls == 4

\* the settings studied: the name, usb detection, a flag, an interval and a
\* priority
StudiedSettings ==
    {setting_identifier.device_name, setting_identifier.usb_detection,
     setting_identifier.time_trigger_enabled, setting_identifier.time_trigger_interval,
     setting_identifier.time_trigger_lora_priority}

\* the contents given to set_value: "", "1", "7", "999", "5000", "on", "x y"
SettingTexts == {<<>>, txt_1, txt_7, txt_999, txt_5000, txt_on, <<120, 32, 121>>}

InitSetting ==
    /\ InitPipeline
    /\ \E i \in StudiedSettings :
            single_setting = <<[index |-> i, value |-> <<>>, cache |-> nullopt,
                                op |-> "construct", status |-> nullopt, calls |-> 0]>>
    /\ NoBits /\ NoCode /\ NoErrors /\ NoVerify /\ NoValidate /\ NoFirst

\* setting::set_value(std::string_view)
SetValue ==
    /\ single_setting # <<>>
    /\ single_setting[1].calls < MaxCalls
    /\ \E content \in SettingTexts :
            single_setting' = <<[single_setting[1] EXCEPT
                                    !.value = set_value(content),
                                    !.op = "set_value",
                                    !.calls = @ + 1]>>
    /\ UNCHANGED pipeline_vars
    /\ UNCHANGED <<bits_in, bits_out, code_in, code_out, eh, record_in,
                   verification_out, validate_in, validate_out, first_parse>>

\* setting::validate(mode); status is the error it returned
ValidateSetting ==
    /\ single_setting # <<>>
    /\ single_setting[1].calls < MaxCalls
    /\ \E mode \in {"config_file", "config_message"} :
            LET s == single_setting[1]
                r == setting_validate(s.index, s.value, mode)
            IN  single_setting' = <<[s EXCEPT
                                        !.cache = IF r.written THEN r.data ELSE @,
                                        !.op = "validate",
                                        !.status = r.error,
                                        !.calls = @ + 1]>>
    /\ UNCHANGED pipeline_vars
    /\ UNCHANGED <<bits_in, bits_out, code_in, code_out, eh, record_in,
                   verification_out, validate_in, validate_out, first_parse>>

NextSetting == SetValue \/ ValidateSetting

SpecSetting == InitSetting /\ [][NextSetting]_vars

---------------------------------------------------------------------------
(* config_handler<xml_parser>::process_config called a second time on the   *)
(* same handler, with another payload.  The second call is followed up to   *)
(* the return of parser.parse_config: apply_valid_settings writes no        *)
(* setting buffer                                                           *)

\* the payloads of the second call
SecondPayloads == {DocS1, DocPriority}

\* the second process_config: parse_config_impl calls reset_parsing, which
\* leaves the buffers of the settings, tag_depth and target_setting alone
ProcessAgain ==
    /\ pc = "applied"
    /\ parser_kind = "xml"
    /\ first_parse = <<>>
    /\ first_parse' = <<FirstParse>>
    /\ pc' = "events"
    /\ \E d \in SecondPayloads : todo' = d
    /\ fuel' = 0
    /\ document' = <<>>
    /\ open_tags' = <<>>
    /\ stored' = {}
    /\ position' = [line |-> 1, column |-> 1]
    /\ parse_errors' = <<>>
    /\ tag_levels' = [i \in 1..setting_count |-> 0]
    /\ handle_tag_called' = FALSE
    /\ UNCHANGED <<parser_kind, target_setting, tag_depth, message, values, cache,
                   unset_setting_errors, invalid_value_errors, main_cfg,
                   verification, rules_evaluated>>
    /\ UNCHANGED <<bits_in, bits_out, code_in, code_out, eh, record_in,
                   verification_out, validate_in, validate_out, single_setting>>

\* apply_valid_settings of the first call
ApplyFirst == first_parse = <<>> /\ ApplyValidSettings

NextPayloads ==
    \/ ParseFile
    \/ HandleTag
    \/ HandleTagEnd
    \/ HandleContent
    \/ VerifyParsing
    \/ ApplyFirst
    \/ ProcessAgain

SpecPayloads == Init /\ [][NextPayloads]_vars

---------------------------------------------------------------------------
(* xml_parser::parse_config of a document on a new parser, then of another  *)
(* document on the same parser, then of the first document again            *)

\* the documents parsed in between: one unclosed tag, and scenario S1
OtherDocuments == {<<Open("aether")>>, DocS1}

\* reset_parsing at the start of a further parse_config_impl on the parser
reset_parsing(next_document) ==
    /\ pc' = "events"
    /\ todo' = next_document
    /\ document' = <<>>
    /\ fuel' = 0
    /\ open_tags' = <<>>
    /\ stored' = {}
    /\ position' = [line |-> 1, column |-> 1]
    /\ parse_errors' = <<>>
    /\ tag_levels' = [i \in 1..setting_count |-> 0]
    /\ handle_tag_called' = FALSE
    /\ UNCHANGED <<parser_kind, target_setting, tag_depth, message, values, cache,
                   unset_setting_errors, invalid_value_errors, main_cfg,
                   verification, rules_evaluated>>
    /\ UNCHANGED <<bits_in, bits_out, code_in, code_out, eh, record_in,
                   verification_out, validate_in, validate_out, single_setting>>

\* the second parse: another document; what the new parser recorded for the
\* first document is kept for comparison
ParseOther ==
    /\ pc = "parsed"
    /\ first_parse = <<>>
    /\ first_parse' = <<[errors |-> parse_errors, values |-> values,
                          document |-> document, parses |-> 1]>>
    /\ \E other \in OtherDocuments : reset_parsing(other)

\* the third parse: the first document again
ParseBack ==
    /\ pc = "parsed"
    /\ first_parse # <<>>
    /\ first_parse[1].parses = 1
    /\ first_parse' = <<[first_parse[1] EXCEPT !.parses = 2]>>
    /\ reset_parsing(first_parse[1].document)

NextReuse ==
    \/ ParseFile
    \/ HandleTag
    \/ HandleTagEnd
    \/ HandleContent
    \/ VerifyParsing
    \/ ParseOther
    \/ ParseBack

SpecReuse == Init /\ [][NextReuse]_vars

---------------------------------------------------------------------------
(* config_handler<xml_parser>::process_config called again and again on one *)
(* handler: each call parses its payload and runs apply_valid_settings      *)

\* number of process_config calls made on the handler
MaxProcessCalls == 3

\* the payloads of the first call: scenario S1, the document with
\* lorawan-priority 7, one unclosed tag
FirstPayloads == {DocS1, DocPriority, <<Open("aether")>>}

\* the first process_config on a new handler
ProcessFirst ==
    /\ pc = "idle"
    /\ pc' = "events"
    /\ parser_kind' = "xml"
    /\ \E d \in FirstPayloads : todo' = d
    /\ fuel' = 0
    /\ position' = [line |-> 1, column |-> 1]
    /\ parse_errors' = <<>>
    /\ tag_levels' = [i \in 1..setting_count |-> 0]
    /\ handle_tag_called' = FALSE
    /\ UNCHANGED <<document, open_tags, stored, target_setting, tag_depth, message,
                   values, cache, unset_setting_errors, invalid_value_errors,
                   main_cfg, verification, rules_evaluated>>
    /\ UNCHANGED pure_vars

\* only the lorawan-priority of the time trigger, 2
DocPriorityOnly ==
    Document(<< <<setting_identifier.time_trigger_lora_priority, txt_2>> >>, <<>>)

\* the payloads of the later calls
LaterPayloads == {DocS1, DocSibling, DocPriorityOnly}

\* what the calls made so far have left in the handler
CallsSoFar ==
    [calls   |-> IF first_parse = <<>> THEN 1 ELSE first_parse[1].calls + 1,
     unset   |-> unset_setting_errors,
     invalid |-> invalid_value_errors,
     had     |-> has_validation_errors]

\* the next process_config that first calls setting_handlr.clear_errors()
ProcessNext_cleared ==
    /\ pc = "applied"
    /\ parser_kind = "xml"
    /\ CallsSoFar.calls < MaxProcessCalls
    /\ first_parse' = <<CallsSoFar>>
    /\ pc' = "events"
    /\ \E d \in LaterPayloads : todo' = d
    /\ document' = <<>>
    /\ fuel' = 0
    /\ open_tags' = <<>>
    /\ stored' = {}
    /\ position' = [line |-> 1, column |-> 1]
    /\ parse_errors' = <<>>
    /\ tag_levels' = [i \in 1..setting_count |-> 0]
    /\ handle_tag_called' = FALSE
    /\ unset_setting_errors' = <<>>
    /\ invalid_value_errors' = <<>>
    /\ UNCHANGED <<parser_kind, target_setting, tag_depth, message, values, cache,
                   main_cfg, verification, rules_evaluated>>
    /\ UNCHANGED <<bits_in, bits_out, code_in, code_out, eh, record_in,
                   verification_out, validate_in, validate_out, single_setting>>

\* the next process_config on the handler: parser.parse_config resets the
\* state of the parser (reset_parsing); nothing resets the setting handler
ProcessNext ==
    /\ pc = "applied"
    /\ parser_kind = "xml"
    /\ CallsSoFar.calls < MaxProcessCalls
    /\ first_parse' = <<CallsSoFar>>
    /\ \E d \in LaterPayloads : reset_parsing(d)

\* the errors the loop of apply_valid_settings adds in this call do not fit
\* a buffer of MaxSettings codes
buffer_overflows ==
    LET res == [i \in 1..setting_count |->
                    setting_validate(i, values[i], handler_validation_mode)]
        goes(buffer) ==
            {i \in 1..setting_count :
                /\ res[i].error # nullopt
                /\ handle_invalid_setting(i, res[i].error[1]) = buffer}
    IN  \/ Len(unset_setting_errors) + Cardinality(goes("unset")) > setting_count
        \/ Len(invalid_value_errors) + Cardinality(goes("invalid")) > setting_count

\* setting_handlr.apply_valid_settings of a call whose errors fit the buffers
ApplyInBounds == ~ buffer_overflows /\ ApplyValidSettings

\* setting_handlr.apply_valid_settings of a call in which a buffer is full
\* and another error is added: add_error stores one past its array, which is
\* undefined.  The store lands outside the handler and the count stays at the
\* capacity ("adjacent"), or it lands on top_error, declared right after the
\* array, and the stores that follow go through a wild pointer ("handler"),
\* after which nothing is known of the call
ApplyOverflow ==
    /\ pc = "parsed"
    /\ buffer_overflows
    /\ \E ub \in {"adjacent", "handler"} :
            IF ub = "adjacent" THEN ApplyValidSettings
            ELSE /\ pc' = "undefined"
                 /\ UNCHANGED <<parser_kind, todo, document, fuel, open_tags, stored,
                                tag_levels, target_setting, tag_depth,
                                handle_tag_called, position, parse_errors, message,
                                values, cache, unset_setting_errors,
                                invalid_value_errors, main_cfg, verification,
                                rules_evaluated>>
                 /\ UNCHANGED pure_vars

NextSuccessive ==
    \/ ProcessFirst
    \/ HandleTag
    \/ HandleTagEnd
    \/ HandleContent
    \/ VerifyParsing
    \/ ApplyInBounds
    \/ ApplyOverflow
    \/ ProcessNext

SpecSuccessive == Init /\ [][NextSuccessive]_vars

---------------------------------------------------------------------------
(* xml_parser::parse_config on a newly constructed parser, for documents    *)
(* whose opening tags outnumber the closing ones by up to 256: tag_depth is *)
(* a std::int_least8_t that handle_tag increments once per opening tag      *)

\* 256 opening tags, none of them closed
DocWrap == [k \in 1..256 |-> Open("aether")]

\* the documents of this study
BalanceDocuments == {DocWrap, DocDeep, DocSibling, DocS1, <<Open("aether")>>}

\* parse_config_impl up to the return of reset_parsing
ParseBalance ==
    /\ pc = "idle"
    /\ pc' = "events"
    /\ parser_kind' = "xml"
    /\ \E d \in BalanceDocuments : todo' = d
    /\ fuel' = 0
    /\ position' = [line |-> 1, column |-> 1]
    /\ parse_errors' = <<>>
    /\ tag_levels' = [i \in 1..setting_count |-> 0]
    /\ handle_tag_called' = FALSE
    /\ UNCHANGED <<document, open_tags, stored, target_setting, tag_depth, message,
                   values, cache, unset_setting_errors, invalid_value_errors,
                   main_cfg, verification, rules_evaluated>>
    /\ UNCHANGED pure_vars

NextBalance ==
    \/ ParseBalance
    \/ HandleTag
    \/ HandleTagEnd
    \/ HandleContent
    \/ VerifyParsing

SpecBalance == Init /\ [][NextBalance]_vars

---------------------------------------------------------------------------
(* Claims *)

\* C1 as stated: whenever a parsing or a validation error is recorded, the
\* returned record equals the default record in every field but the status,
\* and the status is failure
C1_ResetOnConfigError ==
    (pc = "done" /\ parser_kind # "none" /\ has_config_errors) =>
        main_cfg = [default_main_config EXCEPT !.status = "failure"]

\* C1: whenever a parsing or a validation error is recorded, the status of the
\* returned record is failure and every other field is as apply_valid_settings
\* left it: the default record with every setting that validated applied; the
\* record is not reset
C1_FailureKeepsApplied ==
    (pc = "done" /\ parser_kind # "none" /\ has_config_errors) =>
        /\ main_cfg.status = "failure"
        /\ main_cfg =
            [apply_valid_settings(values, handler_validation_mode,
                [config |-> default_main_config,
                 cache |-> [i \in 1..setting_count |-> nullopt],
                 unset |-> <<>>, invalid |-> <<>>]).config
             EXCEPT !.status = "failure"]

\* a call returned with unset-setting errors and a record that kept the
\* applied interval and write-to/sd
C1_Witness ==
    /\ pc = "done"
    /\ parser_kind = "xml"
    /\ contains_errors(unset_setting_errors)
    /\ main_cfg.status = "failure"
    /\ main_cfg.trigger.time.interval_ms = 5000
    /\ ~ main_cfg.trigger.time.write_to.sd
    /\ default_main_config.trigger.time.write_to.sd

\* C2: a returned record that does not carry the failure status comes from a
\* call that recorded no parsing, validation or verification error, and it has
\* a trigger enabled and a data destination for every enabled trigger
C2_SuccessMeansVerified ==
    (pc = "done" /\ main_cfg.status # "failure") =>
        /\ parse_errors = <<>>
        /\ unset_setting_errors = <<>>
        /\ invalid_value_errors = <<>>
        /\ verification = <<>>
        /\ \E t \in triggers : main_cfg.trigger[t].enable
        /\ \A t \in triggers :
                main_cfg.trigger[t].enable =>
                    (main_cfg.trigger[t].write_to.lora \/ main_cfg.trigger[t].write_to.sd)

\* a complete document was processed and its record returned as operational
C2_Witness ==
    /\ pc = "done"
    /\ parser_kind = "xml"
    /\ main_cfg.status = "operational"
    /\ rules_evaluated = rule_count
    /\ main_cfg.trigger.time.interval_ms = 5000
    /\ main_cfg.trigger.light.enable
    /\ ~ main_cfg.trigger.light.write_to.lora

\* C3: verification rules are evaluated only when the parser and the setting
\* handler recorded no error; when an error buffer is non-empty no rule is
\* evaluated and no verification error is produced
C3_VerifyOnlyWithoutErrors ==
    has_config_errors => (rules_evaluated = 0 /\ verification = <<>>)

\* a call returned with an invalid-value error and a record without any
\* enabled trigger, unverified
C3_Witness ==
    /\ pc = "done"
    /\ contains_errors(invalid_value_errors)
    /\ ~ is_any_trigger_enabled(main_cfg.trigger)
    /\ rules_evaluated = 0
    /\ verification = <<>>

\* C4: when parsing and validation record no error and a verification rule
\* fails, the returned record is the default record marked failed, whatever
\* had been applied
C4_ResetOnVerificationError ==
    (pc = "done" /\ ~ has_config_errors /\ contains_errors(verification)) =>
        main_cfg = [default_main_config EXCEPT !.status = "failure"]

\* a complete valid document whose enabled triggers have no data destination
\* was applied, failed verification and was reset
C4_Witness ==
    /\ pc = "done"
    /\ ~ has_config_errors
    /\ verification_error.no_data_destination_enabled \in
            {error_types(verification)[k] : k \in 1..Len(verification)}
    /\ values[setting_identifier.time_trigger_interval] = txt_5000
    /\ cache[setting_identifier.time_trigger_interval] # nullopt
    /\ main_cfg.trigger.time.interval_ms = default_main_config.trigger.time.interval_ms
    /\ main_cfg.status = "failure"

\* C5 as stated: a TEXT event's content is stored in a setting's buffer only
\* if the currently open tags, outermost first, are that setting's tag path
C5_StoredUnderOwnPath ==
    \A s \in stored : s.tags = settings_[s.setting].tags

\* C6 as stated: the S1 document yields the four values, no parsing,
\* validation or verification error, and verification passes
C6_S1Passes ==
    (pc = "done" /\ document = DocS1) =>
        /\ main_cfg.trigger.time.enable
        /\ main_cfg.trigger.time.interval_ms = 5000
        /\ main_cfg.trigger.time.write_to.lora
        /\ ~ main_cfg.trigger.time.write_to.sd
        /\ parse_errors = <<>>
        /\ unset_setting_errors = <<>>
        /\ invalid_value_errors = <<>>
        /\ rules_evaluated = rule_count
        /\ verification = <<>>
        /\ main_cfg.status # "failure"

\* C6: the S1 document yields the four values and records no parsing and no
\* invalid-value error, but one setting_unset error for each required setting
\* it omits; the record is returned failed and no verification rule is run
C6_S1AppliedButUnset ==
    (pc = "done" /\ document = DocS1) =>
        LET given == {setting_identifier.time_trigger_enabled,
                      setting_identifier.time_trigger_interval,
                      setting_identifier.time_trigger_write_to_lora,
                      setting_identifier.time_trigger_write_to_sd}
            omitted == {i \in 1..setting_count : settings_[i].type = "required"} \ given
        IN  /\ main_cfg.trigger.time.enable
            /\ main_cfg.trigger.time.interval_ms = 5000
            /\ main_cfg.trigger.time.write_to.lora
            /\ ~ main_cfg.trigger.time.write_to.sd
            /\ parse_errors = <<>>
            /\ invalid_value_errors = <<>>
            /\ Len(unset_setting_errors) = Cardinality(omitted)
            /\ {error_datas(unset_setting_errors)[k] :
                    k \in 1..Len(unset_setting_errors)} = omitted
            /\ \A k \in 1..Len(unset_setting_errors) :
                    error_types(unset_setting_errors)[k] = validation_error.setting_unset
            /\ rules_evaluated = 0
            /\ verification = <<>>
            /\ main_cfg.status = "failure"

\* the S1 document was processed and returned with 33 unset-setting errors
C6_Witness ==
    /\ pc = "done"
    /\ document = DocS1
    /\ Len(unset_setting_errors) = 33
    /\ main_cfg.trigger.time.interval_ms = 5000
    /\ values[setting_identifier.time_trigger_write_to_sd] = txt_0

\* C7 as stated: a non-null 64-byte message with only bits 26 and 130 set
\* yields time.enable and time.write_to.lora, and verification passes
C7_S4Passes ==
    (/\ pc = "done"
     /\ parser_kind = "message"
     /\ ~ message.null
     /\ message.size = byte_boundary
     /\ message.bits = {26, 130}) =>
        /\ main_cfg.trigger.time.enable
        /\ main_cfg.trigger.time.write_to.lora
        /\ rules_evaluated = rule_count
        /\ verification = <<>>
        /\ main_cfg.status # "failure"

\* C8: the message parser records invalid_message_pointer for a null pointer
\* and insufficient_message_size, with the size as data, for a size below 64;
\* when it records an error no value buffer changes; a non-null 32-byte
\* message gives exactly the one error insufficient_message_size(32)
C8_MessageValidation ==
    [][(pc = "idle" /\ parser_kind' = "message") =>
        LET recorded(kind) ==
                {code_data(parse_errors'[k]) : k \in
                    {j \in 1..Len(parse_errors') :
                        /\ code_category(parse_errors'[j]) = category.parsing
                        /\ code_type(parse_errors'[j]) = kind}}
        IN  /\ message'.null <=> recorded(parsing_error.invalid_message_pointer) # {}
            /\ recorded(parsing_error.insufficient_message_size) =
                    IF message'.size < 64 THEN {message'.size} ELSE {}
            /\ parse_errors' # <<>> => values' = values
            /\ (~ message'.null /\ message'.size = 32) =>
                    /\ Len(parse_errors') = 1
                    /\ error_types(parse_errors') =
                            <<parsing_error.insufficient_message_size>>
                    /\ error_datas(parse_errors') = <<32>>]_vars

\* a non-null 32-byte message was parsed: one error, every buffer still unset
C8_Witness ==
    /\ pc = "parsed"
    /\ parser_kind = "message"
    /\ ~ message.null
    /\ message.size = 32
    /\ Len(parse_errors) = 1
    /\ \A i \in 1..setting_count : ~ is_set(values[i])

\* C11 as stated: after N + 1 calls of add_error on an empty handler of
\* capacity N, slots 1..N-1 hold the first N-1 codes, slot N holds the
\* (N+1)th code, nothing was written outside the N slots and the count is N
C11_Saturation ==
    eh.added = eh.capacity + 1 =>
        /\ eh.intact
        /\ eh.outside = <<>>
        /\ Len(eh.errors) = eh.capacity
        /\ \A k \in 1..(eh.capacity - 1) : eh.errors[k] = eh.input[k]
        /\ eh.errors[eh.capacity] = eh.input[eh.capacity + 1]

\* C12: after apply_valid_settings on a fresh handler, a setting without a
\* value has no error in the invalid-value buffer; if it is optional it has no
\* error in the unset buffer either, and if it is required it has exactly one
\* error there, setting_unset with its identifier as data
C12_UnsetSettings ==
    (pc \in {"applied", "done"} /\ parser_kind # "none") =>
        \A i \in 1..setting_count :
            ~ is_set(values[i]) =>
                LET hits(buffer) ==
                        {k \in 1..Len(buffer) : code_data(buffer[k]) = i}
                IN  /\ hits(invalid_value_errors) = {}
                    /\ IF settings_[i].type = "optional"
                       THEN hits(unset_setting_errors) = {}
                       ELSE /\ Cardinality(hits(unset_setting_errors)) = 1
                            /\ \A k \in hits(unset_setting_errors) :
                                /\ code_category(unset_setting_errors[k]) =
                                        category.validation
                                /\ code_type(unset_setting_errors[k]) =
                                        validation_error.setting_unset

\* settings were applied for a payload that omits the optional device name
\* and the required usb detection, and gives the time trigger interval
C12_Witness ==
    /\ pc = "applied"
    /\ settings_[setting_identifier.device_name].type = "optional"
    /\ ~ is_set(values[setting_identifier.device_name])
    /\ settings_[setting_identifier.usb_detection].type = "required"
    /\ ~ is_set(values[setting_identifier.usb_detection])
    /\ is_set(values[setting_identifier.time_trigger_interval])
    /\ setting_identifier.usb_detection \in
            {code_data(unset_setting_errors[k]) : k \in 1..Len(unset_setting_errors)}

\* C13: apply_valid_settings visits the settings in schema order; a setting
\* whose value fails validation adds one error {kind, setting id} to the
\* invalid-value buffer and its applier is not invoked, while the settings
\* that validate are applied, also after a failing one; lorawan-priority 7 of
\* the time trigger records above_max_threshold with its id and leaves the
\* priority of the record unchanged
C13_InvalidSkippedOthersApplied ==
    (pc = "applied") =>
        LET result(i) == validator_fn(settings_[i].validator, values[i],
                                      handler_validation_mode)
            failing == {i \in 1..setting_count :
                            is_set(values[i]) /\ result(i).error # nullopt}
            valid == {i \in 1..setting_count :
                            is_set(values[i]) /\ result(i).error = nullopt}
            plain == {i \in 1..setting_count :
                            settings_[i].action.kind \in {"field", "write_to"}}
            field(config, i) ==
                LET a == settings_[i].action
                IN  IF a.kind = "field" THEN config.trigger[a.trig][a.field]
                    ELSE config.trigger[a.trig].write_to[a.field]
            prio == setting_identifier.time_trigger_lora_priority
        IN  /\ Len(invalid_value_errors) = Cardinality(failing)
            /\ \A k \in 1..Len(invalid_value_errors) :
                    LET i == code_data(invalid_value_errors[k])
                    IN  /\ i \in failing
                        /\ code_category(invalid_value_errors[k]) = category.validation
                        /\ code_type(invalid_value_errors[k]) = result(i).error[1]
                        /\ \A j \in 1..(k - 1) : code_data(invalid_value_errors[j]) < i
            /\ \A i \in failing \cap plain :
                    field(main_cfg, i) = field(default_main_config, i)
            /\ \A i \in valid \cap plain : field(main_cfg, i) = result(i).data[1]
            /\ values[prio] = txt_7 =>
                    /\ \E k \in 1..Len(invalid_value_errors) :
                            /\ code_type(invalid_value_errors[k]) =
                                    validation_error.above_max_threshold
                            /\ code_data(invalid_value_errors[k]) = prio
                    /\ main_cfg.trigger.time.lorawan_priority =
                            default_main_config.trigger.time.lorawan_priority

\* the document with lorawan-priority 7 was applied: one invalid-value error,
\* the priority kept, the write-to/sd settings after it applied
C13_Witness ==
    /\ pc = "applied"
    /\ document = DocPriority
    /\ Len(invalid_value_errors) = 1
    /\ main_cfg.trigger.time.lorawan_priority = 4
    /\ ~ main_cfg.trigger.time.write_to.sd
    /\ ~ main_cfg.trigger.orientation.write_to.sd
    /\ main_cfg.trigger.light.lorawan_priority = 2

\* C14: in the schema the enabled entry of each trigger comes before every
\* activate-sensors entry of that trigger, and once enabled = false has been
\* applied for a trigger, every sensor applier of that trigger that runs in
\* the same pass writes false into the trigger's mask, whatever the payload
\* gave for the sensor
C14_DisabledTriggerMasksSensors ==
    LET sensors(t) == {i \in 1..setting_count :
                        settings_[i].action.kind = "measure" /\ settings_[i].action.trig = t}
        enabled(t) == {i \in 1..setting_count :
                        /\ settings_[i].action.kind = "field"
                        /\ settings_[i].action.field = "enable"
                        /\ settings_[i].action.trig = t}
        result(i) == validator_fn(settings_[i].validator, values[i],
                                  handler_validation_mode)
        applied(i) == is_set(values[i]) /\ result(i).error = nullopt
    IN  \A t \in triggers :
            /\ Cardinality(enabled(t)) = 1
            /\ Cardinality(sensors(t)) = 4
            /\ \A e \in enabled(t) : \A i \in sensors(t) : e < i
            /\ pc = "applied" =>
                    \A e \in enabled(t) :
                        (applied(e) /\ result(e).data[1] = FALSE) =>
                            \A i \in sensors(t) :
                                applied(i) =>
                                    main_cfg.trigger[t].measure[settings_[i].action.field]
                                        = FALSE

\* a document that disables the time trigger and gives 1 for its thp sensor
\* was applied: the mask of the record is false
C14_Witness ==
    /\ pc = "applied"
    /\ parse_errors = <<>>
    /\ values[setting_identifier.time_trigger_enabled] = txt_0
    /\ values[setting_identifier.time_trigger_enabled + 2] = txt_1
    /\ settings_[setting_identifier.time_trigger_enabled + 2].action =
            [kind |-> "measure", trig |-> "time", field |-> "thp"]
    /\ default_main_config.trigger.time.measure.thp
    /\ ~ main_cfg.trigger.time.enable
    /\ ~ main_cfg.trigger.time.measure.thp

\* C15: for a record with the four triggers disabled the default rules report
\* exactly one error, no_trigger_enabled with the id trigger_requirement; for
\* a record with exactly one trigger enabled and neither write_to.lora nor
\* write_to.sd of it, exactly one error, no_data_destination_enabled with the
\* id of that trigger's rule
C15_VerificationTotality ==
    verification_out # <<>> =>
        LET errors == verification_out[1]
            enabled == {t \in triggers : record_in.trigger[t].enable}
            rule(t) == CASE t = "time" -> verification_identifier.time_trigger
                         [] t = "light" -> verification_identifier.light_trigger
                         [] t = "acceleration" ->
                                verification_identifier.acceleration_trigger
                         [] OTHER -> verification_identifier.orientation_trigger
            only(kind, id) ==
                /\ Len(errors) = 1
                /\ code_category(errors[1]) = category.verification
                /\ code_type(errors[1]) = kind
                /\ code_data(errors[1]) = id
        IN  /\ enabled = {} =>
                    only(verification_error.no_trigger_enabled,
                         verification_identifier.trigger_requirement)
            /\ \A t \in triggers :
                    (/\ enabled = {t}
                     /\ ~ record_in.trigger[t].write_to.lora
                     /\ ~ record_in.trigger[t].write_to.sd) =>
                        only(verification_error.no_data_destination_enabled, rule(t))

\* a record with only the orientation trigger enabled, without destination,
\* was verified, the disabled triggers having destinations or not
C15_Witness ==
    /\ verification_out # <<>>
    /\ {t \in triggers : record_in.trigger[t].enable} = {"orientation"}
    /\ ~ record_in.trigger.orientation.write_to.lora
    /\ ~ record_in.trigger.orientation.write_to.sd
    /\ ~ record_in.trigger.time.write_to.lora
    /\ record_in.trigger.light.write_to.sd
    /\ Len(verification_out[1]) = 1
    /\ code_data(verification_out[1][1]) = 5

\* C16 as stated: at the end of a non-empty document, with d the number of
\* tags still open (negative: closed but never opened), d > 0 appends
\* missing_closing_tag with data d, d < 0 appends missing_opening_tag with
\* data -d, and no_tags_found is appended exactly when no tag was opened
C16_EndOfInput ==
    [][(pc = "events" /\ pc' = "parsed") =>
        LET opened == {k \in 1..Len(document) : document[k].t = "open"}
            closed == {k \in 1..Len(document) : document[k].t = "close"}
            d == Cardinality(opened) - Cardinality(closed)
            new == SubSeq(parse_errors', Len(parse_errors) + 1, Len(parse_errors'))
            datas(kind) == [k \in {j \in 1..Len(new) : code_type(new[j]) = kind}
                                |-> code_data(new[k])]
            count(kind) == Cardinality(DOMAIN datas(kind))
        IN  /\ SubSeq(parse_errors', 1, Len(parse_errors)) = parse_errors
            /\ \A k \in 1..Len(new) : code_category(new[k]) = category.parsing
            /\ count(parsing_error.missing_closing_tag) = IF d > 0 THEN 1 ELSE 0
            /\ \A k \in DOMAIN datas(parsing_error.missing_closing_tag) :
                    datas(parsing_error.missing_closing_tag)[k] = d
            /\ count(parsing_error.missing_opening_tag) = IF d < 0 THEN 1 ELSE 0
            /\ \A k \in DOMAIN datas(parsing_error.missing_opening_tag) :
                    datas(parsing_error.missing_opening_tag)[k] = 0 - d
            /\ count(parsing_error.no_tags_found) = IF opened = {} THEN 1 ELSE 0
            /\ Len(new) = count(parsing_error.missing_closing_tag)
                          + count(parsing_error.missing_opening_tag)
                          + count(parsing_error.no_tags_found)]_vars

\* C17: a text that handle_content accepts for the targeted leaf is stored as
\* its first 32 bytes at most; a text longer than 32 bytes appends
\* exceeds_max_value_length with the cursor position and leaves the setting
\* set with exactly 32 bytes, a text of 32 bytes or fewer is stored whole
\* with no error; apply_valid_settings later validates the stored bytes
C17_LongContentTruncated ==
    [][/\ (/\ pc = "events" /\ pc' = "events"
           /\ Len(document') = Len(document) + 1
           /\ document'[Len(document')].t = "text"
           /\ tag_depth_matches(target_setting)
           /\ is_final_tag_reached(target_setting)) =>
            LET c == document'[Len(document')].content
                cursor == [position EXCEPT !.column = @ + Len(c) - 1]
            IN  IF Len(c) > max_value_size
                THEN /\ Len(values'[target_setting]) = max_value_size
                     /\ values'[target_setting] = SubSeq(c, 1, max_value_size)
                     /\ is_set(values'[target_setting])
                     /\ Len(parse_errors') = Len(parse_errors) + 1
                     /\ SubSeq(parse_errors', 1, Len(parse_errors)) = parse_errors
                     /\ LET e == parse_errors'[Len(parse_errors')]
                        IN  /\ code_category(e) = category.parsing
                            /\ code_type(e) = parsing_error.exceeds_max_value_length
                            /\ code_data(e) = cursor.column * 4096 + cursor.line
                ELSE /\ values'[target_setting] = c
                     /\ parse_errors' = parse_errors
       /\ (pc = "parsed" /\ pc' = "applied" /\ parser_kind = "xml") =>
            \A i \in 1..setting_count :
                is_set(values[i]) =>
                    LET r == validator_fn(settings_[i].validator, values[i],
                                          handler_validation_mode)
                        reported == \E k \in 1..Len(invalid_value_errors') :
                                        code_data(invalid_value_errors'[k]) = i
                    IN  /\ reported <=> r.error # nullopt
                        /\ r.error = nullopt => cache'[i] = r.data
                        /\ (i = setting_identifier.device_name /\ document = DocLongName)
                            => (~ reported /\ cache'[i] = <<SubSeq(txt_long_name, 1, max_value_size)>>)]_vars

\* the name of 33 characters was stored as its first 32 and validated as
\* such: one parsing error, no invalid-value error, the name in the cache
C17_Witness ==
    /\ pc = "applied"
    /\ document = DocLongName
    /\ Len(values[setting_identifier.device_name]) = max_value_size
    /\ Len(parse_errors) = 1
    /\ code_type(parse_errors[1]) = parsing_error.exceeds_max_value_length
    /\ invalid_value_errors = <<>>
    /\ cache[setting_identifier.device_name] = <<SubSeq(txt_long_name, 1, max_value_size)>>

\* C18: parsing an empty config file records exactly one parsing error,
\* empty_config with column 1 in the high and line 1 in the low 12 bits of
\* its data, no no_tags_found or missing-tag error, and changes no setting
\* buffer
C18_EmptyInput ==
    [][(pc = "idle" /\ pc' = "parsed" /\ parser_kind' = "xml") =>
        /\ Len(parse_errors') = 1
        /\ code_category(parse_errors'[1]) = category.parsing
        /\ code_type(parse_errors'[1]) = parsing_error.empty_config
        /\ code_data(parse_errors'[1]) = 1 * 4096 + 1
        /\ values' = values
        /\ \A i \in 1..setting_count : ~ is_set(values'[i])]_vars

\* an empty file was parsed
C18_Witness ==
    /\ pc = "parsed"
    /\ parser_kind = "xml"
    /\ document = <<>>
    /\ ~ handle_tag_called
    /\ Len(parse_errors) = 1
    /\ code_type(parse_errors[1]) = parsing_error.empty_config
    /\ code_data(parse_errors[1]) = 4097

\* C19 as stated: when the same document has been parsed a second time
\* against a fresh copy of the settings, the parsing-error buffer and every
\* setting buffer equal those the first parse left
C19_Deterministic ==
    (pc = "parsed" /\ first_parse # <<>>) =>
        /\ parse_errors = first_parse[1].errors
        /\ values = first_parse[1].values

\* C20 as stated: in config_message mode, for a setting of integral type T
\* whose buffer holds the 8 little-endian bytes of a value x representable
\* in T, the validator obtains x and returns it without error if and only
\* if min <= x <= max
C20_MessageRange ==
    validate_out # <<>> =>
        LET v == validate_in[1].validator
            x == validate_in[1].x
            r == validate_out[1]
            representable ==
                IF v.T = "bool" THEN x <= 1
                ELSE \/ type_info(v.T).bytes >= 4
                     \/ x < Pow2(8 * type_info(v.T).bytes
                                 - (IF type_info(v.T).signed THEN 1 ELSE 0))
            as_T == IF v.T = "bool" THEN <<x # 0>> ELSE <<x>>
            in_range == /\ (v.min # nullopt => v.min[1] <= x)
                        /\ (v.max # nullopt => x <= v.max[1])
        IN  representable =>
                ((r.error = nullopt /\ r.data = as_T) <=> in_range)

\* C21 as stated: in config_message mode the validator of usb_detection
\* succeeds exactly when the integer in the buffer is the underlying value of
\* an enumerator of USB_DETECTION, and then yields that enumerator
C21_UsbDiscriminant ==
    validate_out # <<>> =>
        LET x == validate_in[1].x
            d == validate_in[1].discriminants
            r == validate_out[1]
            valid == \E l \in UsbLabels : d[l] = x
        IN  /\ (r.error = nullopt) <=> valid
            /\ valid => (r.data # nullopt /\ d[r.data[1]] = x)

\* the number x of a config file is a value of type T
C22_Representable(T, x) ==
    /\ ~ x.huge
    /\ CASE T = "bool"   -> x.n >= 0 /\ x.n <= 255
         [] T = "uint8"  -> x.n >= 0 /\ x.n <= 255
         [] T = "int8"   -> x.n >= -128 /\ x.n <= 127
         [] T = "uint16" -> x.n >= 0 /\ x.n <= 65535
         [] T = "uint32" -> x.n >= 0
         [] OTHER        -> TRUE

\* the outcome C22 gives for number x under validator v
C22_Expected(v, x, r) ==
    IF v.T = "bool"
    THEN IF ~ x.huge /\ x.n \in {0, 1}
         THEN r.error = nullopt /\ r.data = <<x.n = 1>>
         ELSE r.error = <<validation_error.out_of_type_range>>
    ELSE IF ~ C22_Representable(v.T, x)
    THEN r.error = <<validation_error.out_of_type_range>>
    ELSE IF v.min # nullopt /\ x.n < v.min[1]
    THEN r.error = <<validation_error.below_min_threshold>>
    ELSE IF v.max # nullopt /\ x.n > v.max[1]
    THEN r.error = <<validation_error.above_max_threshold>>
    ELSE r.error = nullopt /\ r.data = <<x.n>>

\* C22 as stated: in config_file mode a decimal number not representable in
\* T yields out_of_type_range, a representable one below min yields
\* below_min_threshold, above max above_max_threshold, and otherwise the
\* number without error; for bool the result is the number if it is 0 or 1
\* and out_of_type_range otherwise
C22_FileRange ==
    validate_out # <<>> =>
        C22_Expected(validate_in[1].validator, validate_in[1].x, validate_out[1])

\* C22, amended: as stated for the numbers written without a sign and for
\* the negative numbers of a signed T; a negative number yields
\* contains_invalid_character when T is unsigned or bool
C22_FileRangeUnsignedMinus ==
    validate_out # <<>> =>
        LET v == validate_in[1].validator
            x == validate_in[1].x
            r == validate_out[1]
            signed == v.T \in {"int8", "int16", "int32"}
        IN  IF x.n < 0 /\ ~ signed
            THEN r.error = <<validation_error.contains_invalid_character>>
            ELSE C22_Expected(v, x, r)

\* validate<std::uint32_t, 1000> was given "-1" and answered
\* contains_invalid_character
C22_Witness ==
    /\ validate_out # <<>>
    /\ validate_in[1].x.text = <<45, 49>>
    /\ validate_in[1].validator = V_ms
    /\ validate_out[1].error = <<validation_error.contains_invalid_character>>

\* C23 as stated: after any sequence of set_value and validate calls that
\* ends with a validate call, the cache of the setting holds data if and
\* only if that call returned no error
C23_CacheIffOk ==
    (single_setting # <<>> /\ single_setting[1].op = "validate") =>
        (single_setting[1].cache # nullopt <=> single_setting[1].status = nullopt)

\* C23, amended: a validate call on an unset setting returns setting_unset
\* and leaves the cache as it was; a validate call on a set setting leaves
\* data in the cache if and only if it returned no error, below_min_threshold
\* or above_max_threshold
C23_CacheAfterValidate ==
    [][(single_setting # <<>> /\ single_setting'[1].op = "validate"
            /\ single_setting'[1].calls = single_setting[1].calls + 1) =>
        LET before == single_setting[1]
            after == single_setting'[1]
        IN  IF ~ is_set(before.value)
            THEN /\ after.status = <<validation_error.setting_unset>>
                 /\ after.cache = before.cache
            ELSE after.cache # nullopt <=>
                    after.status \in {nullopt,
                                      <<validation_error.below_min_threshold>>,
                                      <<validation_error.above_max_threshold>>}]_vars

\* the interval "999" was validated: below_min_threshold, 999 in the cache
C23_Witness ==
    /\ single_setting # <<>>
    /\ single_setting[1].index = setting_identifier.time_trigger_interval
    /\ single_setting[1].op = "validate"
    /\ single_setting[1].value = txt_999
    /\ single_setting[1].status = <<validation_error.below_min_threshold>>
    /\ single_setting[1].cache = <<999>>

\* the tags open after the first k events of a document
RECURSIVE C24_OpenPath(_, _)
C24_OpenPath(doc, k) ==
    IF k = 0 THEN <<>>
    ELSE LET before == C24_OpenPath(doc, k - 1)
         IN  CASE doc[k].t = "open" -> Append(before, doc[k].tag)
               [] doc[k].t = "close" ->
                    IF before = <<>> THEN before
                    ELSE SubSeq(before, 1, Len(before) - 1)
               [] OTHER -> before

\* C24 as stated: after the second payload of a handler has been parsed, a
\* setting is set if and only if that payload holds a text directly inside
\* the tags of the setting; no value of the first payload remains
C24_SetIffSupplied ==
    (pc = "parsed" /\ first_parse # <<>>) =>
        LET supplied == {C24_OpenPath(document, k - 1) :
                            k \in {j \in 1..Len(document) : document[j].t = "text"}}
        IN  \A i \in 1..setting_count :
                is_set(values[i]) <=> settings_[i].tags \in supplied

\* C25 as stated: log_errors with a non-empty message writes nothing when
\* the buffer holds no error, and otherwise the message followed by every
\* stored code in insertion order, also when the buffer holds exactly its
\* capacity of errors
C25_LogErrors ==
    (eh.logged /\ eh.error_msg # "") =>
        IF eh.errors = <<>> THEN Len(eh.output) = 0
        ELSE /\ Len(eh.output) = Len(eh.errors) + 1
             /\ eh.output[1].kind = "text"
             /\ \A k \in 1..Len(eh.errors) :
                    /\ eh.output[k + 1].kind = "code"
                    /\ eh.output[k + 1].code = eh.errors[k]

\* C26 as stated: in the record of the handler, from its construction on
\* and after every applier and reset, the lorawan priority of each of the
\* four triggers lies in 0..3
C26_PriorityInRange ==
    \A t \in triggers : main_cfg.trigger[t].lorawan_priority \in 0..3

\* C27: among the settings of the handler no two non-empty bitspans
\* overlap, every non-empty bitspan ends within the 512 bits of a config
\* message, the identifiers are pairwise distinct and the tag paths are
\* pairwise distinct
C27_SchemaWellFormed ==
    /\ DOMAIN values = 1..Len(settings_)
    /\ Len(settings_) = setting_count
    /\ Len(setting_ids) = setting_count
    /\ \A i \in DOMAIN values :
            settings_[i].size > 0 =>
                settings_[i].pos + settings_[i].size <= byte_boundary * 8
    /\ \A i, j \in DOMAIN values :
            i # j =>
                /\ (settings_[i].size > 0 /\ settings_[j].size > 0) =>
                        \/ settings_[i].pos + settings_[i].size <= settings_[j].pos
                        \/ settings_[j].pos + settings_[j].size <= settings_[i].pos
                /\ setting_ids[i] # setting_ids[j]
                /\ settings_[i].tags # settings_[j].tags

\* a config message was parsed without error: every setting with a bitspan
\* received the bits of its own span, the name (no bitspan) stayed unset
C27_Witness ==
    /\ pc = "parsed"
    /\ parser_kind = "message"
    /\ parse_errors = <<>>
    /\ \A i \in 1..setting_count : is_set(values[i]) <=> settings_[i].size > 0
    /\ \E i \in 1..setting_count : settings_[i].size > 1

\* C28 as stated: an opening tag name at depth d < max_tag_depth gives tag
\* level d + 1 to every setting whose tag level is d and whose tag at
\* position d is name, and selects the last of them; the other settings keep
\* their level, and without a match the selection; then the depth is d + 1,
\* at any depth
C28_OpenTransition ==
    [][(/\ pc = "events"
        /\ Len(document') = Len(document) + 1
        /\ document'[Len(document')].t = "open") =>
        LET name == document'[Len(document')].tag
            d == tag_depth
            matched == IF d < max_tag_depth
                       THEN {i \in 1..setting_count :
                                /\ tag_levels[i] = d
                                /\ Len(settings_[i].tags) > d
                                /\ settings_[i].tags[d + 1] = name}
                       ELSE {}
        IN  /\ pc' = "events"
            /\ tag_levels' = [i \in 1..setting_count |->
                                IF i \in matched THEN d + 1 ELSE tag_levels[i]]
            /\ target_setting' = IF matched = {} THEN target_setting
                                  ELSE CHOOSE i \in matched : \A j \in matched : j <= i
            /\ tag_depth' = d + 1
            /\ handle_tag_called']_vars

\* C29 as stated: a non-empty document parsed on a parser that parsed
\* another document before records the parsing errors it records on a newly
\* constructed parser
C29_ReuseSameErrors ==
    (pc = "parsed" /\ first_parse # <<>> /\ first_parse[1].parses = 2) =>
        parse_errors = first_parse[1].errors

\* the fields of the record that the applier of setting i writes
C30_Target(config, i) ==
    LET a == settings_[i].action
    IN  CASE a.kind = "device_name" -> <<config.device_name>>
          [] a.kind = "usb_detection" -> <<config.usb_detection>>
          [] a.kind = "usb_interval_ms" -> <<config.usb_detection_interval_ms>>
          [] a.kind = "field" -> <<config.trigger[a.trig][a.field]>>
          [] a.kind = "write_to" -> <<config.trigger[a.trig].write_to[a.field]>>
          [] OTHER ->
                <<config.trigger[a.trig].measure[a.field]>> \o
                (IF a.trig # "time" THEN <<>>
                 ELSE CASE a.field = "thp" -> <<config.bme280>>
                        [] a.field = "accel_gyro" ->
                                <<config.bmx160.measure_accelerometer,
                                  config.bmx160.measure_gyroscope>>
                        [] a.field = "magnet" ->
                                <<config.bmx160.measure_magnetometer>>
                        [] OTHER -> <<config.veml6030.measure_light>>)

\* C30: in the pass of process_config over the settings, the applier of a
\* setting acts only after validate of that setting returned no error in
\* this pass: a setting that is unset or whose value fails validation leaves
\* the fields of its applier as they were, and a setting that validates has
\* the result of this validation in its cache (never an empty one) and the
\* fields of its applier are what the applier makes of that cached data
C30_ApplyOnlyValidated ==
    [][(pc = "parsed" /\ pc' = "applied") =>
        \A i \in 1..setting_count :
            LET r == validator_fn(settings_[i].validator, values[i],
                                  handler_validation_mode)
                ok == is_set(values[i]) /\ r.error = nullopt
            IN  /\ ~ ok => C30_Target(main_cfg', i) = C30_Target(main_cfg, i)
                /\ ok =>
                        /\ cache'[i] # nullopt
                        /\ cache'[i] = r.data
                        /\ C30_Target(main_cfg', i) =
                                C30_Target(action_fn(settings_[i].action,
                                                     cache'[i][1], main_cfg'), i)]_vars

\* the document with lorawan-priority 7 went through the pass: the light
\* priority was validated and applied from its cache, the time priority
\* failed validation with 7 in its cache and was not applied, the name was
\* unset with an empty cache and was not applied
C30_Witness ==
    /\ pc = "applied"
    /\ document = DocPriority
    /\ \E i \in 1..setting_count :
            /\ setting_ids[i] = "light_trigger_lora_priority"
            /\ cache[i] = <<2>>
    /\ main_cfg.trigger.light.lorawan_priority = 2
    /\ cache[setting_identifier.time_trigger_lora_priority] = <<7>>
    /\ main_cfg.trigger.time.lorawan_priority =
            default_main_config.trigger.time.lorawan_priority
    /\ ~ is_set(values[setting_identifier.device_name])
    /\ cache[setting_identifier.device_name] = nullopt
    /\ main_cfg.device_name = default_main_config.device_name

\* C31: in config_file mode a validate<T, MinMax...> validator given a text
\* with a character that is no part of a decimal number of T, at the start or
\* after leading digits, yields contains_invalid_character and no data (so
\* that nothing is applied)
C31_InvalidCharacter ==
    (/\ validate_out # <<>>
     /\ \E k \in 1..Len(validate_in[1].x.text) :
            /\ ~ is_digit(validate_in[1].x.text[k])
            /\ ~ (/\ k = 1
                  /\ validate_in[1].x.text[k] = 45
                  /\ validate_in[1].validator.T \in {"int8", "int16", "int32"}))
        => /\ validate_out[1].error = <<validation_error.contains_invalid_character>>
           /\ validate_out[1].data = nullopt

\* C32: for every kind and every integer data value, negative ones and those
\* of 2^24 and more included, the code built has the category and the kind
\* given and the value modulo 2^24 as its data; assigning a part of the data
\* segment afterwards changes only the bits of that part, which then hold the
\* assigned value modulo the size of the part
C32_DataModulo ==
    /\ code_out # <<>> =>
            /\ code_category(code_out[1]) = code_in.category
            /\ code_type(code_out[1]) = code_in.kind
            /\ code_data(code_out[1]) = code_in.data % 16777216
    /\ Len(code_out) = 2 =>
            LET p == data_format[code_in.part]
                field == {b + p.offset : b \in p.mask}
            IN  /\ code_out[2] \ field = code_out[1] \ field
                /\ code_out[2] \subseteq 0..31
                /\ BitsToInt({b - p.offset : b \in code_out[2] \cap field}) =
                        code_in.part_data % Pow2(Cardinality(p.mask))

\* a validation code built with 16777217 holds 1; byte2 was then assigned -1
\* and the data is 65281, category and kind as before
C32_Witness ==
    /\ Len(code_out) = 2
    /\ code_in.category = category.validation
    /\ code_in.kind = validation_error.invalid_option
    /\ code_in.data = 16777217
    /\ code_data(code_out[1]) = 1
    /\ code_in.part = "byte2"
    /\ code_in.part_data = -1
    /\ code_data(code_out[2]) = 65281
    /\ code_type(code_out[2]) = validation_error.invalid_option
    /\ code_category(code_out[2]) = category.validation

\* C33 as stated: no setting of the handler has a tag path of more than 4
\* tags, and the max_tag_depth of the parser is 4
C33_DepthFour ==
    /\ \A i \in DOMAIN values : Len(settings_[i].tags) <= 4
    /\ max_tag_depth = 4

\* C33, amended: no setting of the handler has a tag path of more than 5
\* tags, the 28 activate-sensors and write-to settings have one of exactly 5
\* tags (the others fewer), and the max_tag_depth of the parser is 5, the
\* greatest length of a path
C33_DepthFive ==
    /\ DOMAIN values = 1..setting_count
    /\ \A i \in DOMAIN values :
            /\ Len(settings_[i].tags) <= 5
            /\ Len(settings_[i].tags) = 5 <=>
                    settings_[i].tags[Len(settings_[i].tags) - 1]
                        \in {"activate-sensors", "write-to"}
    /\ Cardinality({i \in DOMAIN values : Len(settings_[i].tags) = 5}) = 28
    /\ max_tag_depth = 5
    /\ \E i \in DOMAIN values : Len(settings_[i].tags) = max_tag_depth

\* a config file was parsed without error in which the parser went down the
\* five tags of time/activate-sensors/thp and stored its value (which takes
\* the level of the setting back to 0)
C33_Witness ==
    /\ pc = "parsed"
    /\ parser_kind = "xml"
    /\ parse_errors = <<>>
    /\ \E i \in 1..setting_count :
            /\ settings_[i].tags =
                    <<"aether", "trigger", "time", "activate-sensors", "thp">>
            /\ tag_levels[i] = 0
            /\ is_set(values[i])

C35_Accounting ==
    /\ error_count(eh) >= 0
    /\ error_count(eh) <= eh.capacity
    /\ (error_count(eh) # 0) <=> (error_count(eh) > 0)
    /\ is_error_limit_reached(eh) <=> (error_count(eh) = eh.capacity)
    /\ eh.op = "clear_errors" => error_count(eh) = 0

\* C36: for every bitspan (p, w) with 1 <= w <= 64 and p + w <= 512
\* extract_bits reads only the source bytes floor(p/8) .. floor((p+w-1)/8),
\* none beyond index 63; the settings for which the message parser calls it
\* (those with a bitspan of non-zero size, in a frame of at least 64 bytes)
\* have such a bitspan, so it reads no byte outside an accepted frame
C36_ReadsInFrame ==
    bits_out # <<>> =>
        /\ bits_in.size >= 1 /\ bits_in.size <= 64
        /\ bits_in.pos + bits_in.size <= 512
        /\ bits_out[1].reads # {}
        /\ bits_out[1].reads \subseteq
                (bits_in.pos \div 8) .. ((bits_in.pos + bits_in.size - 1) \div 8)
        /\ \A k \in bits_out[1].reads : k >= 0 /\ k <= byte_boundary - 1
        /\ \A i \in 1..setting_count :
                settings_[i].size # 0 =>
                    /\ settings_[i].size >= 1 /\ settings_[i].size <= 64
                    /\ settings_[i].pos + settings_[i].size <= 512
                    /\ \A k \in extract_reads(settings_[i].pos, settings_[i].size) :
                            k <= byte_boundary - 1

\* the last 8 bits of the frame were extracted: only byte 63 was read
C36_Witness ==
    /\ bits_out # <<>>
    /\ bits_in.pos = 504
    /\ bits_in.size = 8
    /\ bits_out[1].reads = {63}

\* C37: setting::validate never returns missing_value; on a setting whose
\* value is empty it returns setting_unset without calling the validator (the
\* cache keeps its content), and handle_invalid_setting records that error in
\* the unset buffer when the setting is required and discards it when the
\* setting is optional
C37_EmptyIsUnset ==
    [][(single_setting # <<>> /\ single_setting'[1].op = "validate"
            /\ single_setting'[1].calls = single_setting[1].calls + 1) =>
        LET before == single_setting[1]
            after == single_setting'[1]
        IN  /\ after.status # <<validation_error.missing_value>>
            /\ before.value = <<>> =>
                    /\ after.status = <<validation_error.setting_unset>>
                    /\ after.cache = before.cache
                    /\ handle_invalid_setting(after.index, after.status[1])
                            = IF after.index = setting_identifier.device_name
                              THEN "none" ELSE "unset"]_vars

\* usb detection was validated with "on", then written with empty content and
\* validated again: setting_unset, the cache still holds ON
C37_Witness ==
    /\ single_setting # <<>>
    /\ single_setting[1].index = setting_identifier.usb_detection
    /\ single_setting[1].op = "validate"
    /\ single_setting[1].value = <<>>
    /\ single_setting[1].calls = 4
    /\ single_setting[1].status = <<validation_error.setting_unset>>
    /\ single_setting[1].cache = <<"ON">>

\* C38 as stated: at the end of a non-empty document parsed by a newly
\* constructed parser, one imbalance error (missing_closing_tag or
\* missing_opening_tag) is appended if the numbers of opening and closing tags
\* differ, with their absolute difference as data, and none if they are equal;
\* a closing tag changes no tag level and no target, whatever its name
C38_CountOnly ==
    [][/\ (pc = "events" /\ pc' = "parsed") =>
            LET opened == {k \in 1..Len(document) : document[k].t = "open"}
                closed == {k \in 1..Len(document) : document[k].t = "close"}
                d == Cardinality(opened) - Cardinality(closed)
                new == SubSeq(parse_errors', Len(parse_errors) + 1, Len(parse_errors'))
                imbalance == {k \in 1..Len(new) :
                                code_type(new[k]) \in
                                    {parsing_error.missing_closing_tag,
                                     parsing_error.missing_opening_tag}}
            IN  /\ Cardinality(imbalance) = IF d # 0 THEN 1 ELSE 0
                /\ \A k \in imbalance :
                        code_data(new[k]) = IF d > 0 THEN d ELSE 0 - d
       /\ (pc = "events" /\ pc' = "events" /\ Len(document') = Len(document) + 1
                /\ document'[Len(document')].t = "close") =>
            /\ tag_levels' = tag_levels
            /\ target_setting' = target_setting]_vars

\* C39: verify_main_config with the default rules returns at most 4 errors,
\* one less than the capacity of its buffer, in the order the rules are
\* declared; a no_trigger_enabled error is the only error of its result, so it
\* never stands beside a no_data_destination_enabled error
C39_AtMostFour ==
    verification_out # <<>> =>
        LET errs == verification_out[1]
            kinds == {code_type(errs[k]) : k \in 1..Len(errs)}
        IN  /\ Len(errs) <= 4
            /\ Len(errs) < rule_count
            /\ \A k \in 1..Len(errs) :
                    /\ code_category(errs[k]) = category.verification
                    /\ code_data(errs[k]) \in 1..rule_count
            /\ \A j, k \in 1..Len(errs) :
                    j < k => code_data(errs[j]) < code_data(errs[k])
            /\ kinds \subseteq {verification_error.no_trigger_enabled,
                                verification_error.no_data_destination_enabled}
            /\ Cardinality(kinds) <= 1
            /\ verification_error.no_trigger_enabled \in kinds => Len(errs) = 1

\* every trigger enabled, none with a destination: the four per-trigger errors
C39_Witness ==
    /\ verification_out # <<>>
    /\ \A t \in triggers :
            /\ record_in.trigger[t].enable
            /\ ~ record_in.trigger[t].write_to.lora
            /\ ~ record_in.trigger[t].write_to.sd
    /\ Len(verification_out[1]) = 4
    /\ \A k \in 1..4 :
            /\ code_type(verification_out[1][k])
                    = verification_error.no_data_destination_enabled
            /\ code_data(verification_out[1][k]) = k + 1

\* C40: when the message parser of a new handler returns without a parsing
\* error, every setting whose bitspan has a size other than 0 is set with a
\* buffer of 8 bytes and every setting whose bitspan has size 0 (the device
\* name only) keeps the buffer it had; apply_valid_settings then records no
\* setting_unset error, and the device name of the record stays the one the
\* constructor wrote, whatever the message
C40_FrameEffect ==
    [][parser_kind' = "message" =>
        /\ (pc = "idle" /\ parse_errors' = <<>>) =>
                \A i \in 1..setting_count :
                    IF settings_[i].size # 0
                    THEN is_set(values'[i]) /\ Len(values'[i]) = 8
                    ELSE /\ values'[i] = values[i]
                         /\ setting_ids[i] = "device_name"
        /\ (pc = "parsed" /\ pc' = "applied" /\ parse_errors = <<>>) =>
                /\ unset_setting_errors' = <<>>
                /\ \A i \in 1..setting_count :
                        settings_[i].size # 0 =>
                            setting_validate(i, values[i], handler_validation_mode).error
                                # <<validation_error.setting_unset>>
        /\ main_cfg'.device_name = default_main_config.device_name]_vars

\* a non-null message of 64 bytes with bits set was parsed and applied: no
\* parsing error, 37 buffers of 8 bytes, the name unset
C40_Witness ==
    /\ pc = "applied"
    /\ parser_kind = "message"
    /\ parse_errors = <<>>
    /\ message.size = 64
    /\ message.bits = {26, 130}
    /\ Cardinality({i \in 1..setting_count : Len(values[i]) = 8}) = setting_count - 1
    /\ \E i \in 1..setting_count :
            setting_ids[i] = "device_name" /\ ~ is_set(values[i])
    /\ unset_setting_errors = <<>>
    /\ main_cfg.device_name = default_main_config.device_name

\* C9: for every bitspan (p, w) with 1 <= w <= 64 and p + w <= 512 and every
\* value v, extract_bits on (p, w) of the zeroed buffer into which v mod 2^w
\* was written MSB first at bit offset p returns v mod 2^w, zero-extended
C9_BitRoundTrip ==
    bits_out # <<>> =>
        bits_out[1] = bits_in.value \cap (0 .. (bits_in.size - 1))

\* a full 64-bit span that starts inside a byte has been extracted
C9_Witness ==
    /\ bits_out # <<>>
    /\ bits_in.size = 64
    /\ bits_in.pos % 8 = 5
    /\ bits_in.value = 0..63
    /\ bits_out[1] = 0..63

\* C10: for every category, kind of it and data in [0, 2^24), the packed code
\* has the category in bits 31..29, the kind in bits 28..24 and the data in
\* bits 23..0
C10_CodeRoundTrip ==
    code_out # <<>> =>
        LET c == code_out[1]
        IN  /\ c \subseteq 0..31
            /\ {b - 29 : b \in c \cap (29..31)} = IntToBits(code_in.category)
            /\ {b - 24 : b \in c \cap (24..28)} = IntToBits(code_in.kind)
            /\ c \cap (0..23) = IntToBits(code_in.data)

\* a verification code with all data bits set has been packed
C10_Witness ==
    /\ code_out # <<>>
    /\ code_in.category = category.verification
    /\ code_in.kind = verification_error.no_data_destination_enabled
    /\ code_in.data = Pow2(segment_size_data) - 1
    /\ code_category(code_out[1]) = 3
    /\ code_type(code_out[1]) = 2
    /\ code_data(code_out[1]) = 16777215

=============================================================================
